---- MODULE Spec2Model ----
(***************************************************************************)
(* Model of the backtest engine of dataDig:                                *)
(*   src/src/strategy/engines/backtest_engine.py  (BacktestEngine)         *)
(*   src/src/strategy/models/base_strategy.py     (BaseStrategy)           *)
(*   src/src/strategy/models/backtest_result.py   (Trade, DailyReturn)     *)
(*   src/src/strategy/strategies/simple_ma_strategy.py (SimpleMAStrategy)  *)
(*                                                                         *)
(* One behaviour is one call of BacktestEngine.run_backtest: the test of   *)
(* its arguments, the empty result or _execute_backtest.  The dates of the *)
(* price source are part of the initial state; the bars of a date are      *)
(* drawn when the date loop reaches it (the engine never looks ahead).     *)
(* The answers of should_buy, should_sell and get_position_size are drawn  *)
(* when the engine calls them, or computed as the shipped strategies       *)
(* compute them (SpecShipped, SpecMA).                                     *)
(*                                                                         *)
(* Numbers.  Python floats are modelled as exact rationals.  Amounts of    *)
(* money (cash, amount, commission, values) are integers counted in        *)
(* 1/RateDen of a currency unit, so that amount * commission_rate is       *)
(* exact for a rate of commission_rate / RateDen.  Prices are whole        *)
(* currency units; an average price and a realized P/L are fractions       *)
(* [n, d] in lowest terms, in currency units.                              *)
(***************************************************************************)
EXTENDS Integers, Sequences, FiniteSets, TLC

\* ---------------------------------------------------------------- bounds
\* number of distinct trade dates in the price data
MaxDates == 2
\* number of trades the strategies' answers may lead to in one run
MaxTrades == 3
\* number of distinct trade dates in a run of SimpleMAStrategy
MaxDatesMA == 3

\* ------------------------------------------------------- input domains
None == "None"
\* ts_code values, in the feed's order (ORDER BY trade_date, ts_code)
Symbols == {"A", "B"}
SymbolOrder == <<"A", "B">>
\* close prices a bar of a symbol may carry
Closes == [A |-> {10, 11}, B |-> {50}]
\* answers of get_position_size
Quantities == {0, 100, 300}
\* money unit: 1/RateDen currency units; commission_rate is counted in 1/RateDen
RateDen == 1000
\* commission rates: 0, 0.1 % and 200 %
Rates == {0, 1, 2000}
\* config.initial_cash, in currency units
InitialCash == {10000, 100000}
\* the strategy objects handed to run_backtest
Objects == {"o1", "o2"}
\* (buy_strategy, sell_strategy): buy only, combined, two objects, sell only
StrategyPairs == {<<"o1", None>>, <<"o1", "o1">>, <<"o1", "o2">>, <<None, "o2">>}
\* run_backtest() called without a strategy
NoStrategies == <<None, None>>
\* the share of the cash one buy may use in the shipped get_position_size:
\* BaseStrategy 0.95, SimpleMAStrategy 1/5, RedThreeSoldiersStrategy 1/10
PositionPcts == {[n |-> 19, d |-> 20], [n |-> 1, d |-> 5], [n |-> 1, d |-> 10]}
\* SimpleMAStrategyConfig(short_window, long_window)
short_window == 1
long_window == 2
\* TradingSignal
BUY == "buy"
SELL == "sell"
HOLD == "hold"
\* strategy objects whose answers are left open (no position_pct, no on_bar):
\* get_position_size answers any of Quantities, should_buy and should_sell
\* answer anything
AnyStrategy == [position_pct |-> {}, on_bar |-> None]
\* strategy objects sized like the shipped ones, signals left open
ShippedSizings == {[position_pct |-> {p}, on_bar |-> None] : p \in PositionPcts}
\* SimpleMAStrategy objects: should_buy / should_sell are BaseStrategy's,
\* which ask on_bar
SimpleMA == [position_pct |-> {[n |-> 1, d |-> 5]}, on_bar |-> "SimpleMAStrategy"]
\* price sources as _load_price_data returns them (ORDER BY trade_date):
\* no row at all, or rows of the dates 1..k
OrderedFeeds(n) == {[i \in 1..k |-> i] : k \in 0..n}
\* price frames handed over in any row order: the trade_date of each chunk
\* of rows, a date coming in one or several chunks
AnyFeeds(n) == UNION {[1..k -> 1..n] : k \in 1..n}

\* ------------------------------------------------------------ fractions
Abs(x) == IF x < 0 THEN -x ELSE x

RECURSIVE Gcd(_, _)
Gcd(a, b) == IF b = 0 THEN a ELSE Gcd(b, a % b)

\* the fraction n/d (d # 0) in lowest terms with a positive denominator
Frac(n, d) ==
    LET g == Gcd(Abs(n), Abs(d))
        s == IF d < 0 THEN -1 ELSE 1
    IN  [n |-> s * (n \div g), d |-> s * (d \div g)]

FracInt(k) == [n |-> k, d |-> 1]
FracAdd(x, y) == Frac(x.n * y.d + y.n * x.d, x.d * y.d)
FracSub(x, y) == Frac(x.n * y.d - y.n * x.d, x.d * y.d)
FracMul(x, k) == Frac(x.n * k, x.d)
FracDiv(x, k) == Frac(x.n, x.d * k)

\* the sign of an integer
Sign(k) == IF k < 0 THEN -1 ELSE IF k > 0 THEN 1 ELSE 0

\* x * y for two fractions, the common factors taken out before the products
\* so that they stay within 32 bits
FracTimes(x, y) ==
    LET g1 == Gcd(Abs(x.n), y.d)
        g2 == Gcd(Abs(y.n), x.d)
    IN  Frac((x.n \div g1) * (y.n \div g2), (x.d \div g2) * (y.d \div g1))

\* x / y for two fractions, y # 0
FracOver(x, y) == FracTimes(x, [n |-> Sign(y.n) * y.d, d |-> Abs(y.n)])

\* x < y for two fractions
FracLess(x, y) ==
    IF x.n <= 0 /\ y.n >= 0 THEN x.n < 0 \/ y.n > 0
    ELSE IF x.n >= 0 /\ y.n <= 0 THEN FALSE
    ELSE LET ratio == FracOver(x, y)
         IN  IF x.n > 0 THEN ratio.n < ratio.d ELSE ratio.n > ratio.d

\* float('nan'): the quotient 0 / 0 of a pandas Series
NaN == [n |-> 0, d |-> 0]

\* ---------------------------------------------------------------- state
VARIABLES
    pc,                    \* position in run_backtest and _execute_backtest
    buy_strategy,          \* object passed as buy_strategy, or None
    sell_strategy,         \* object passed as sell_strategy, or None
    commission_rate,       \* in 1/RateDen
    strategies,            \* per object: BaseStrategy.cash and .positions
    initial_cash,
    previous_total_value,
    current_cash,
    positions,             \* engine's map symbol -> PositionInfo
    trades,                \* list of Trade
    daily_returns,         \* list of DailyReturn
    dates_done,            \* number of trade dates fully processed
    daily_data,            \* rows of the current date: <<[ts_code, close], ...>>
    row,                   \* index in daily_data of the row being processed
    calls,                 \* should_buy / should_sell calls made on the current date
    summary,               \* BacktestSummary, or None while the run lasts
    ledger_calls,          \* update_position calls made by a direct caller of BaseStrategy
    update_call,           \* the last of these calls: its arguments and how it ended
    price_data,            \* the rows of each trade date where the frame is known
                           \* beforehand, <<>> where each date's rows are drawn
                           \* as the date loop reaches it
    earlier,               \* what an earlier run on the same engine returned
    strategy_object,       \* a signal strategy whose handlers are called directly
    strategy_config,       \* what the strategy objects are: sizing and signal rule
    price_dates,           \* trade_date of the price source's rows, in supply order
    setup,                 \* what run_backtest did before the date loop
    on_bar_state,          \* per object: SimpleMAStrategy.price_history and .last_signal
    signals                \* on_bar calls made on the current date

vars == <<pc, buy_strategy, sell_strategy, commission_rate, strategies,
          initial_cash, previous_total_value, current_cash, positions,
          trades, daily_returns, dates_done, daily_data, row, calls, summary,
          ledger_calls, update_call, strategy_config, price_dates, setup,
          on_bar_state, signals, price_data, earlier, strategy_object>>

\* ------------------------------------------------------- BaseStrategy
\* PositionInfo()
PositionInfo(symbol) ==
    [symbol |-> symbol, quantity |-> 0, avg_price |-> FracInt(0),
     realized_pnl |-> FracInt(0)]

\* a map without one key (del d[k])
Without(map, key) == [k \in DOMAIN map \ {key} |-> map[k]]

\* d[k] = v, adding the key when it is missing
With(map, key, val) == [k \in DOMAIN map \cup {key} |-> IF k = key THEN val ELSE map[k]]

\* a wrong average: the last price paid replaces the weighted average
WeightedAvg_m(pos, quantity, price) == FracInt(price)

\* the weighted average cost after adding quantity shares at price
WeightedAvg(pos, quantity, price) ==
    LET total_cost == FracAdd(FracMul(pos.avg_price, pos.quantity), FracInt(quantity * price))
        total_quantity == pos.quantity + quantity
    IN  IF total_quantity > 0 THEN FracDiv(total_cost, total_quantity) ELSE pos.avg_price

\* realized P/L of selling quantity shares at price: sell_value - sell_cost
SellPnl(pos, quantity, price) ==
    FracSub(FracInt(quantity * price), FracMul(pos.avg_price, quantity))

\* the quantity <= pos.quantity test of a sell
SellAllowed(quantity, pos) == quantity <= pos.quantity

\* how update_position ends: the method returns on every path, also when a
\* sell asks for more than the position holds
UpdateOutcome(st, symbol, quantity, action) == "return"

\* an update_position call and how it ended
UpdateCall(symbol, quantity, price, action, outcome) ==
    [symbol |-> symbol, quantity |-> quantity, price |-> price,
     action |-> action, outcome |-> outcome]

\* no update_position call yet
NoCall == UpdateCall(None, 0, 0, None, None)

\* BaseStrategy.update_position(symbol, quantity, price, action) on the
\* strategy state st = [cash, positions]
UpdatePosition(st, symbol, quantity, price, action) ==
    LET pmap == IF symbol \in DOMAIN st.positions THEN st.positions
                ELSE With(st.positions, symbol, PositionInfo(symbol))
        pos == pmap[symbol]
    IN  IF action = "buy" THEN
            [cash |-> st.cash - quantity * price * RateDen,
             positions |-> With(pmap, symbol,
                 [pos EXCEPT !.avg_price = WeightedAvg(pos, quantity, price),
                             !.quantity = pos.quantity + quantity])]
        ELSE IF action = "sell" /\ SellAllowed(quantity, pos) THEN
            LET sold == [pos EXCEPT !.realized_pnl = FracAdd(@, SellPnl(pos, quantity, price)),
                                    !.quantity = pos.quantity - quantity]
            IN  [cash |-> st.cash + quantity * price * RateDen,
                 positions |-> IF sold.quantity = 0 THEN Without(pmap, symbol)
                               ELSE With(pmap, symbol, sold)]
        ELSE [cash |-> st.cash, positions |-> pmap]

\* int(cash * n / unit) for cash >= 0, the product kept within 32 bits
Units(cash, n, unit) == (cash \div unit) * n + ((cash % unit) * n) \div unit

\* a sizing without lots: every share the money buys
PositionSize_m(cash, pct, price) == Units(cash, pct.n, pct.d * price * RateDen)

\* get_position_size(symbol, price) of the shipped strategies:
\* int(cash * position_pct / price / 100) * 100
PositionSize(cash, pct, price) ==
    Units(cash, pct.n, pct.d * price * RateDen * 100) * 100

\* --------------------------------------------------- SimpleMAStrategy
\* seq[-n:]
LastN(seq, n) == SubSeq(seq, Len(seq) - n + 1, Len(seq))

RECURSIVE SumSeq(_)
SumSeq(seq) == IF seq = <<>> THEN 0 ELSE Head(seq) + SumSeq(Tail(seq))

\* SimpleMAStrategy(), before its first bar
NoBars == [price_history |-> [s \in Symbols |-> <<>>],
           last_signal |-> [s \in Symbols |-> None]]

\* SimpleMAStrategy.on_bar(symbol, bar_data) in the state st of the object,
\* held telling whether self.positions holds the symbol: the signal returned
\* and the object's state afterwards.  The averages are compared as
\* sum(short) * long_window against sum(long) * short_window.
OnBar(st, held, symbol, close) ==
    LET appended == Append(st.price_history[symbol], close)
        max_length == long_window * 2
        prices == IF Len(appended) > max_length THEN LastN(appended, max_length)
                  ELSE appended
        history == [st.price_history EXCEPT ![symbol] = prices]
    IN  IF Len(prices) < long_window
        THEN [signal |-> HOLD, state |-> [st EXCEPT !.price_history = history]]
        ELSE LET ma_short == SumSeq(LastN(prices, short_window)) * long_window
                 ma_long == SumSeq(LastN(prices, long_window)) * short_window
                 last == st.last_signal[symbol]
             IN  IF ma_short > ma_long
                 THEN [signal |-> IF last # "bullish" /\ ~held THEN BUY ELSE HOLD,
                       state |-> [price_history |-> history,
                                  last_signal |-> [st.last_signal EXCEPT
                                                      ![symbol] = "bullish"]]]
                 ELSE IF ma_short < ma_long
                 THEN [signal |-> IF last # "bearish" /\ held THEN SELL ELSE HOLD,
                       state |-> [price_history |-> history,
                                  last_signal |-> [st.last_signal EXCEPT
                                                      ![symbol] = "bearish"]]]
                 ELSE [signal |-> HOLD,
                       state |-> [price_history |-> history,
                                  last_signal |-> st.last_signal]]

\* ------------------------------------------------------------- engine
\* Trade(...)
Trade(symbol, trade_date, action, quantity, price, amount, commission) ==
    [symbol |-> symbol, trade_date |-> trade_date, action |-> action,
     quantity |-> quantity, price |-> price, amount |-> amount,
     commission |-> commission]

\* the keys of price_data.groupby('trade_date'): each date once, in the order
\* of its first row
RECURSIVE GroupKeys(_)
GroupKeys(dates) ==
    IF dates = <<>> THEN <<>>
    ELSE LET before == GroupKeys(SubSeq(dates, 1, Len(dates) - 1))
             last == dates[Len(dates)]
         IN  IF \E i \in DOMAIN before : before[i] = last THEN before
             ELSE Append(before, last)

\* a missing sort: the keys as the groups come
trade_dates_m == GroupKeys(price_dates)

\* sorted(grouped.groups.keys())
trade_dates == SortSeq(GroupKeys(price_dates), LAMBDA a, b : a < b)

\* the loop variable trade_date: the date being processed, the last one once
\* the loop is over
trade_date ==
    trade_dates[IF dates_done < Len(trade_dates) THEN dates_done + 1
                ELSE Len(trade_dates)]

\* the rows one symbol can contribute to a date
Rows(s) == {[ts_code |-> s, close |-> c] : c \in Closes[s]}

\* the symbols of a set in feed order
Ordered(present) == SelectSeq(SymbolOrder, LAMBDA s : s \in present)

\* every daily_data a date can have: a non-empty group of rows, at most one
\* per symbol (uq_ts_trade_date), in feed order
DailyDatas ==
    UNION { { d \in [1..Len(o) -> UNION {Rows(s) : s \in Symbols}] :
                \A k \in 1..Len(o) : d[k] \in Rows(o[k]) } :
            o \in {Ordered(present) : present \in (SUBSET Symbols) \ {{}}} }

\* grouped.get_group(trade_date) of the k-th trade date
DailyDataOf(k) == IF price_data = <<>> THEN DailyDatas ELSE {price_data[k]}

\* current_prices of the date
current_prices ==
    [s \in {daily_data[k].ts_code : k \in DOMAIN daily_data} |->
        daily_data[CHOOSE k \in DOMAIN daily_data : daily_data[k].ts_code = s].close]

\* a wrong order: the sell block ahead of the buy block
RowSteps_m == <<"sell", "buy">>

\* the order of the two signal blocks in the body of the row loop
RowSteps == <<"buy", "sell">>

\* where the loop goes after a block of the current row
AfterStep(step) ==
    IF step = RowSteps[1] THEN [pc |-> RowSteps[2], row |-> row]
    ELSE IF row < Len(daily_data) THEN [pc |-> RowSteps[1], row |-> row + 1]
    ELSE [pc |-> "value", row |-> row]

\* a wrong threshold: 1000 itself is enough to buy
AboveThreshold_m(cash) == cash >= 1000 * RateDen

\* current_cash > 1000
AboveThreshold(cash) == cash > 1000 * RateDen

\* a missing test: a quantity of 0 is bought
QuantityOk_m(quantity) == TRUE

\* quantity > 0
QuantityOk(quantity) == quantity > 0

\* a missing test: the buy is made whatever it costs
CanAfford_m(cash, total_cost) == TRUE

\* current_cash >= total_cost
CanAfford(cash, total_cost) == cash >= total_cost

\* a wrong commission: a minimum fee of 5 currency units a trade
Commission_min(quantity, close) ==
    IF quantity * close * commission_rate < 5 * RateDen THEN 5 * RateDen
    ELSE quantity * close * commission_rate

\* a wrong commission: the rate applied to the quantity, not to the amount
Commission_m(quantity, close) == quantity * commission_rate

\* amount * commission_rate, for an amount of quantity * close currency units
Commission(quantity, close) == quantity * close * commission_rate

\* amount in money units
Amount(quantity, close) == quantity * close * RateDen

\* a wrong update: the bought quantity replaces the held quantity
BoughtPosition_m(pos, quantity, close) ==
    [pos EXCEPT !.avg_price = WeightedAvg(pos, quantity, close),
                !.quantity = quantity]

\* the engine's position after a buy
BoughtPosition(pos, quantity, close) ==
    [pos EXCEPT !.avg_price = WeightedAvg(pos, quantity, close),
                !.quantity = pos.quantity + quantity]

\* a wrong quantity: one lot is sold, not the position
SellQuantity_m(position) == 100

\* the quantity a sell signal sells
SellQuantity(position) == position.quantity

\* a wrong net amount: the commission of a sell is not taken off
NetAmount_m(amount, commission) == amount

\* net_amount of a sell
NetAmount(amount, commission) == amount - commission

\* the strategies' answers: no further signal once MaxTrades trades were made
Answers == IF Len(trades) < MaxTrades THEN BOOLEAN ELSE {FALSE}

\* BaseStrategy.should_buy / should_sell of an object: on_bar(...) == wanted
\* for a SimpleMAStrategy, any answer for a strategy left open; with the
\* object's state and the date's on_bar calls afterwards
Should(object, symbol, close, kind, wanted) ==
    IF strategy_config.on_bar = None
    THEN {[answer |-> a, state |-> on_bar_state[object], signals |-> signals] :
             a \in Answers}
    ELSE LET held == /\ symbol \in DOMAIN strategies[object].positions
                     /\ strategies[object].positions[symbol].quantity > 0
             bar == OnBar(on_bar_state[object], held, symbol, close)
         IN  {[answer |-> bar.signal = wanted, state |-> bar.state,
               signals |-> Append(signals, [symbol |-> symbol, kind |-> kind,
                                            signal |-> bar.signal])]}

\* the answers of buy_strategy.get_position_size(symbol, close), its cash
\* being cash
PositionSizes(cash, close) ==
    IF strategy_config.position_pct = {} THEN Quantities
    ELSE {PositionSize(cash, pct, close) : pct \in strategy_config.position_pct}

\* ------------------------------------------- the pattern strategies
\* ts_code values is_main_board_stock accepts
MainBoard == {"A"}
\* bars kept by RedThreeSoldiersStrategy.on_bar
OnBarKeep == 4
\* bars kept by the combined RedThreeSoldiersStrategy
CombinedKeep == 4
\* bars kept by the buy-only RedThreeSoldiersStrategy
BuyOnlyKeep == 8
\* bars a pattern test of the on_bar and combined strategies asks for
PatternBars == 3

\* the classes of signal strategy
Classes == {"SimpleMAStrategy", "RedThreeSoldiersStrategy",
            "combined RedThreeSoldiersStrategy", "buy RedThreeSoldiersStrategy"}

\* the bars a symbol may carry: trade_date and close (the other columns are
\* read by the pattern tests only, whose answers are inputs)
Bars(symbol) == {[trade_date |-> d, close |-> c] : d \in 1..2, c \in Closes[symbol]}

\* a strategy object of a class, before its first bar
NewObject(class) ==
    [class |-> class,
     price_history |-> [s \in Symbols |-> <<>>],
     last_signal |-> [s \in Symbols |-> None],
     buy_dates |-> <<>>,
     buy_prices |-> <<>>]

\* no strategy is called directly
NoObject == NewObject(None)

\* a missing eviction: the history keeps every bar
UpdatePriceHistory_m(history, symbol, bar, keep) ==
    [history EXCEPT ![symbol] = Append(@, bar)]

\* price_history[symbol].append(bar); if len(...) > keep: pop(0)
UpdatePriceHistory(history, symbol, bar, keep) ==
    LET appended == Append(history[symbol], bar)
    IN  [history EXCEPT ![symbol] =
            IF Len(appended) > keep THEN Tail(appended) ELSE appended]

\* RedThreeSoldiersStrategy.on_bar(symbol, bar) on the object st; held tells
\* whether self.positions has the symbol, pattern is the answer of
\* check_red_three_soldiers_pattern for the last three bars
RedThreeSoldiersOnBar(st, held, pattern, symbol, bar) ==
    IF symbol \notin MainBoard THEN [signal |-> HOLD, state |-> st]
    ELSE LET history == UpdatePriceHistory(st.price_history, symbol, bar, OnBarKeep)
             kept == [st EXCEPT !.price_history = history]
         IN  IF /\ held
                /\ symbol \in DOMAIN st.buy_dates
                /\ bar.trade_date # st.buy_dates[symbol]
             THEN [signal |-> SELL,
                   state |-> [kept EXCEPT !.buy_dates = Without(@, symbol)]]
             ELSE IF Len(history[symbol]) >= PatternBars /\ ~held /\ pattern
             THEN [signal |-> BUY,
                   state |-> [kept EXCEPT !.buy_dates = With(@, symbol, bar.trade_date)]]
             ELSE [signal |-> HOLD, state |-> kept]

\* generate_buy_signal of the combined RedThreeSoldiersStrategy
CombinedBuySignal(st, held, pattern, symbol, bar) ==
    IF symbol \notin MainBoard THEN [answer |-> FALSE, state |-> st]
    ELSE LET history == UpdatePriceHistory(st.price_history, symbol, bar, CombinedKeep)
             kept == [st EXCEPT !.price_history = history]
         IN  IF Len(history[symbol]) >= PatternBars /\ ~held /\ pattern
             THEN [answer |-> TRUE,
                   state |-> [kept EXCEPT
                                 !.buy_dates = With(@, symbol, bar.trade_date),
                                 !.buy_prices = With(@, symbol, bar.close)]]
             ELSE [answer |-> FALSE, state |-> kept]

\* generate_sell_signal of the combined RedThreeSoldiersStrategy; stop is the
\* answer of the stop-loss strategy it asks
CombinedSellSignal(st, held, stop, symbol, bar) ==
    LET history == UpdatePriceHistory(st.price_history, symbol, bar, CombinedKeep)
        kept == [st EXCEPT !.price_history = history]
    IN  IF /\ held
           /\ symbol \in DOMAIN st.buy_dates
           /\ bar.trade_date # st.buy_dates[symbol]
           /\ stop
        THEN [answer |-> TRUE,
              state |-> [kept EXCEPT
                            !.buy_dates = Without(@, symbol),
                            !.buy_prices = IF symbol \in DOMAIN @
                                           THEN Without(@, symbol) ELSE @]]
        ELSE [answer |-> FALSE, state |-> kept]

\* generate_buy_signal of the buy-only RedThreeSoldiersStrategy; pattern is
\* the answer of check_volume_condition and check_red_three_soldiers_pattern
BuyOnlyBuySignal(st, held, pattern, symbol, bar) ==
    IF symbol \notin MainBoard THEN [answer |-> FALSE, state |-> st]
    ELSE LET history == UpdatePriceHistory(st.price_history, symbol, bar, BuyOnlyKeep)
         IN  [answer |-> Len(history[symbol]) >= BuyOnlyKeep /\ ~held /\ pattern,
              state |-> [st EXCEPT !.price_history = history]]

\* no run made yet on the engine
NoEarlierRun ==
    [ran |-> FALSE, fresh |-> FALSE, trades |-> <<>>, daily_returns |-> <<>>]

\* the arguments of run_backtest and the objects they name, before the call
RunArguments(pairs, configs, feeds) ==
    /\ pc = "run"
    /\ \E pair \in pairs :
          /\ buy_strategy = pair[1]
          /\ sell_strategy = pair[2]
    /\ commission_rate \in Rates
    /\ strategy_config \in configs
    /\ price_dates \in feeds
    /\ setup = [initialized |-> {}, loaded |-> FALSE]
    /\ on_bar_state = [o \in Objects |-> NoBars]
    /\ signals = <<>>
    /\ \E c \in InitialCash :
          /\ initial_cash = c * RateDen
          /\ strategies = [o \in Objects |-> [cash |-> c * RateDen, positions |-> <<>>]]
    /\ previous_total_value = initial_cash
    /\ current_cash = initial_cash
    /\ positions = <<>>
    /\ trades = <<>>
    /\ daily_returns = <<>>
    /\ dates_done = 0
    /\ daily_data = <<>>
    /\ row = 0
    /\ calls = <<>>
    /\ summary = None
    /\ ledger_calls = 0
    /\ update_call = NoCall
    /\ earlier = NoEarlierRun
    /\ strategy_object = NoObject

\* a run whose rows are drawn date by date
InitRun(pairs, configs, feeds) ==
    /\ RunArguments(pairs, configs, feeds)
    /\ price_data = <<>>

Init == InitRun(StrategyPairs \cup {NoStrategies}, {AnyStrategy}, OrderedFeeds(MaxDates))

\* a wrong test: a run needs a buy strategy
NoStrategy_m(buy, sell) == buy = None

\* not buy_strategy and not sell_strategy
NoStrategy(buy, sell) == buy = None /\ sell = None

\* buy_strategy or sell_strategy
main_strategy == IF buy_strategy # None THEN buy_strategy ELSE sell_strategy

\* a wrong empty result: nothing left
EmptySummary_m(strategy) ==
    [initial_cash |-> strategy.cash, final_value |-> 0,
     total_return |-> FracInt(0), max_drawdown |-> FracInt(0),
     win_rate |-> FracInt(0), total_trades |-> 0, trading_days |-> 0]

\* the BacktestSummary of _create_empty_result
EmptySummary(strategy) ==
    [initial_cash |-> strategy.cash, final_value |-> strategy.cash,
     total_return |-> FracInt(0), max_drawdown |-> FracInt(0),
     win_rate |-> FracInt(0), total_trades |-> 0, trading_days |-> 0]

\* run_backtest up to the date loop: the test of the arguments, initialize()
\* of the strategies, _load_price_data, then the empty result or the first
\* lines of _execute_backtest
RunBacktest ==
    /\ pc = "run"
    /\ IF NoStrategy(buy_strategy, sell_strategy)
       THEN /\ pc' = "ValueError"
            /\ UNCHANGED <<setup, summary, initial_cash, previous_total_value,
                           current_cash>>
       ELSE /\ setup' = [initialized |-> {buy_strategy, sell_strategy} \ {None},
                         loaded |-> TRUE]
            /\ IF price_dates = <<>>
               THEN /\ summary' = EmptySummary(strategies[main_strategy])
                    /\ pc' = "done"
                    /\ UNCHANGED <<initial_cash, previous_total_value, current_cash>>
               ELSE /\ initial_cash' = strategies[main_strategy].cash
                    /\ previous_total_value' = strategies[main_strategy].cash
                    /\ current_cash' = strategies[main_strategy].cash
                    /\ pc' = "date"
                    /\ UNCHANGED summary
    /\ UNCHANGED <<buy_strategy, sell_strategy, commission_rate, strategies,
                   positions, trades, daily_returns, dates_done, daily_data, row,
                   calls, ledger_calls, update_call, price_data, earlier, strategy_config, price_dates,
                   on_bar_state, signals,
                   strategy_object>>

\* for trade_date in trade_dates: daily_data = grouped.get_group(trade_date)
StartDate ==
    /\ pc = "date"
    /\ dates_done < Len(trade_dates)
    /\ \E d \in DailyDataOf(dates_done + 1) : daily_data' = d
    /\ row' = 1
    /\ calls' = <<>>
    /\ signals' = <<>>
    /\ pc' = RowSteps[1]
    /\ UNCHANGED <<buy_strategy, sell_strategy, commission_rate, strategies,
                   initial_cash, previous_total_value, current_cash, positions,
                   trades, daily_returns, dates_done, summary, ledger_calls, update_call, price_data, earlier,
                   strategy_config, price_dates, setup, on_bar_state,
                   strategy_object>>

\* a missing assignment: the object keeps the cash of its own bookkeeping
Synced_m(strats, object, cash) == strats

\* buy_strategy.cash = current_cash, ahead of get_position_size
Synced(strats, object, cash) == [strats EXCEPT ![object].cash = cash]

\* the buy block of one row
BuyStep ==
    /\ pc = "buy"
    /\ LET symbol == daily_data[row].ts_code
           close == daily_data[row].close
           next == AfterStep("buy")
       IN  /\ pc' = next.pc
           /\ row' = next.row
           /\ IF buy_strategy # None /\ AboveThreshold(current_cash)
              THEN \E reply \in Should(buy_strategy, symbol, close, "buy", BUY) :
                   /\ on_bar_state' = [on_bar_state EXCEPT ![buy_strategy] = reply.state]
                   /\ signals' = reply.signals
                   /\ IF reply.answer
                      THEN LET synced == Synced(strategies, buy_strategy, current_cash) IN
                           \E quantity \in PositionSizes(synced[buy_strategy].cash, close) :
                           LET amount == Amount(quantity, close)
                               commission == Commission(quantity, close)
                               total_cost == amount + commission
                           IN  /\ calls' = Append(calls, [symbol |-> symbol, kind |-> "buy",
                                                          answer |-> TRUE, quantity |-> quantity])
                               /\ IF QuantityOk(quantity) /\ CanAfford(current_cash, total_cost)
                                  THEN LET pos == IF symbol \in DOMAIN positions
                                                  THEN positions[symbol]
                                                  ELSE PositionInfo(symbol)
                                       IN  /\ positions' = With(positions, symbol,
                                                                BoughtPosition(pos, quantity, close))
                                           /\ current_cash' = current_cash - total_cost
                                           /\ strategies' =
                                                [synced EXCEPT ![buy_strategy] =
                                                   UpdatePosition(
                                                     [synced[buy_strategy] EXCEPT
                                                         !.cash = current_cash - total_cost],
                                                     symbol, quantity, close, "buy")]
                                           /\ trades' = Append(trades,
                                                Trade(symbol, trade_date, "buy", quantity,
                                                      close, amount, commission))
                                  ELSE /\ strategies' = synced
                                       /\ UNCHANGED <<positions, current_cash, trades>>
                      ELSE /\ calls' = Append(calls, [symbol |-> symbol, kind |-> "buy",
                                                      answer |-> FALSE, quantity |-> 0])
                           /\ UNCHANGED <<strategies, positions, current_cash, trades>>
              ELSE UNCHANGED <<calls, strategies, positions, current_cash, trades,
                               on_bar_state, signals>>
    /\ UNCHANGED <<buy_strategy, sell_strategy, commission_rate, initial_cash,
                   previous_total_value, daily_returns, dates_done, daily_data,
                   summary, ledger_calls, update_call, price_data, earlier, strategy_config, price_dates, setup,
                   strategy_object>>

\* the sell block of one row
SellStep ==
    /\ pc = "sell"
    /\ LET symbol == daily_data[row].ts_code
           close == daily_data[row].close
           next == AfterStep("sell")
       IN  /\ pc' = next.pc
           /\ row' = next.row
           /\ IF sell_strategy # None /\ symbol \in DOMAIN positions
                 /\ positions[symbol].quantity > 0
              THEN \E reply \in Should(sell_strategy, symbol, close, "sell", SELL) :
                   /\ on_bar_state' = [on_bar_state EXCEPT ![sell_strategy] = reply.state]
                   /\ signals' = reply.signals
                   /\ calls' = Append(calls, [symbol |-> symbol, kind |-> "sell",
                                              answer |-> reply.answer, quantity |-> 0])
                   /\ IF reply.answer
                      THEN LET position == positions[symbol]
                               quantity == SellQuantity(position)
                               amount == Amount(quantity, close)
                               commission == Commission(quantity, close)
                               net_amount == NetAmount(amount, commission)
                           IN  /\ current_cash' = current_cash + net_amount
                               /\ strategies' =
                                    [strategies EXCEPT ![sell_strategy] =
                                       UpdatePosition(
                                         [strategies[sell_strategy] EXCEPT
                                             !.cash = current_cash + net_amount],
                                         symbol, quantity, close, "sell")]
                               /\ trades' = Append(trades,
                                    Trade(symbol, trade_date, "sell", quantity,
                                          close, amount, commission))
                               /\ positions' = Without(positions, symbol)
                      ELSE UNCHANGED <<strategies, positions, current_cash, trades>>
              ELSE UNCHANGED <<calls, strategies, positions, current_cash, trades,
                               on_bar_state, signals>>
    /\ UNCHANGED <<buy_strategy, sell_strategy, commission_rate, initial_cash,
                   previous_total_value, daily_returns, dates_done, daily_data,
                   summary, ledger_calls, update_call, price_data, earlier, strategy_config, price_dates, setup,
                   strategy_object>>

\* a wrong stock_value: a position without a bar on the date is carried at
\* its average cost
StockValue_carried(pmap, prices) ==
    LET RECURSIVE Sum(_)
        Sum(S) == IF S = {} THEN 0
                  ELSE LET s == CHOOSE x \in S : TRUE
                           price == IF s \in DOMAIN prices THEN prices[s]
                                    ELSE pmap[s].avg_price.n \div pmap[s].avg_price.d
                       IN  pmap[s].quantity * price * RateDen + Sum(S \ {s})
    IN  Sum(DOMAIN pmap)

\* stock_value of the date: positions with a bar on that date, at its close
StockValue(pmap, prices) ==
    LET held == {s \in DOMAIN pmap : s \in DOMAIN prices}
        RECURSIVE Sum(_)
        Sum(S) == IF S = {} THEN 0
                  ELSE LET s == CHOOSE x \in S : TRUE
                       IN  pmap[s].quantity * prices[s] * RateDen + Sum(S \ {s})
    IN  Sum(held)

\* a wrong daily return: measured against the initial cash on every date
DailyReturn_initial(date, cash, stock_value, previous, initial, pmap) ==
    LET total_value == cash + stock_value
    IN  [trade_date |-> date,
         total_value |-> total_value,
         cash |-> cash,
         stock_value |-> stock_value,
         daily_return |-> IF initial > 0 THEN Frac(total_value - initial, initial)
                          ELSE FracInt(0),
         cumulative_return |-> IF initial > 0 THEN Frac(total_value - initial, initial)
                               ELSE FracInt(0),
         positions |-> Cardinality(DOMAIN pmap)]

\* a wrong total: carried forward from the previous date's total
DailyReturn_m(date, cash, stock_value, previous, initial, pmap) ==
    LET total_value == previous + stock_value
    IN  [trade_date |-> date,
         total_value |-> total_value,
         cash |-> cash,
         stock_value |-> stock_value,
         daily_return |-> IF previous > 0 THEN Frac(total_value - previous, previous)
                          ELSE FracInt(0),
         cumulative_return |-> IF initial > 0 THEN Frac(total_value - initial, initial)
                               ELSE FracInt(0),
         positions |-> Cardinality(DOMAIN pmap)]

\* DailyReturn(...) of the date
DailyReturn(date, cash, stock_value, previous, initial, pmap) ==
    LET total_value == cash + stock_value
    IN  [trade_date |-> date,
         total_value |-> total_value,
         cash |-> cash,
         stock_value |-> stock_value,
         daily_return |-> IF previous > 0 THEN Frac(total_value - previous, previous)
                          ELSE FracInt(0),
         cumulative_return |-> IF initial > 0 THEN Frac(total_value - initial, initial)
                               ELSE FracInt(0),
         positions |-> Cardinality(DOMAIN pmap)]

\* the valuation at the end of a date
Valuation ==
    /\ pc = "value"
    /\ LET daily_ret == DailyReturn(trade_date, current_cash,
                                    StockValue(positions, current_prices),
                                    previous_total_value, initial_cash, positions)
       IN  /\ daily_returns' = Append(daily_returns, daily_ret)
           /\ previous_total_value' = daily_ret.total_value
    /\ dates_done' = dates_done + 1
    /\ pc' = "date"
    /\ UNCHANGED <<buy_strategy, sell_strategy, commission_rate, strategies,
                   initial_cash, current_cash, positions, trades, daily_data,
                   row, calls, summary, ledger_calls, update_call, price_data, earlier,
                   strategy_config,
                   price_dates, setup, on_bar_state, signals,
                   strategy_object>>

\* ------------------------------------- BacktestResult.calculate_metrics
\* df['daily_return'] of the result
Returns(series) == [k \in DOMAIN series |-> series[k].daily_return]

\* (1 + returns).cumprod()
RECURSIVE Cumprod(_)
Cumprod(returns) ==
    IF returns = <<>> THEN <<>>
    ELSE LET before == Cumprod(SubSeq(returns, 1, Len(returns) - 1))
             factor == FracAdd(FracInt(1), returns[Len(returns)])
         IN  Append(before, IF before = <<>> THEN factor
                            ELSE FracTimes(before[Len(before)], factor))

\* a wrong peak: the initial value (a cumulative value of 1) on every date
ExpandingMax_m(seq) == [k \in DOMAIN seq |-> FracInt(1)]

\* cumulative_returns.expanding().max()
RECURSIVE ExpandingMax(_)
ExpandingMax(seq) ==
    IF seq = <<>> THEN <<>>
    ELSE LET before == ExpandingMax(SubSeq(seq, 1, Len(seq) - 1))
             last == seq[Len(seq)]
         IN  Append(before, IF before = <<>> \/ FracLess(before[Len(before)], last)
                            THEN last ELSE before[Len(before)])

\* float('-inf'): a negative value divided by 0
NegInf == [n |-> -1, d |-> 0]

\* a wrong unit: the drawdown in percent
Drawdown_pct(c, m) ==
    IF m.n = 0 THEN NaN ELSE FracMul(FracSub(FracOver(c, m), FracInt(1)), 100)

\* (cumulative_returns - rolling_max) / rolling_max on one date, the
\* cumulative value c never above the rolling max m
Drawdown(c, m) ==
    IF m.n = 0 THEN (IF c.n = 0 THEN NaN ELSE NegInf)
    ELSE FracSub(FracOver(c, m), FracInt(1))

\* Series.min(): NaN values are skipped, NaN when nothing is left
SeriesMin(seq) ==
    LET vals == {seq[k] : k \in DOMAIN seq} \ {NaN}
    IN  IF vals = {} THEN NaN
        ELSE IF NegInf \in vals THEN NegInf
        ELSE CHOOSE v \in vals : \A w \in vals : ~FracLess(w, v)

\* drawdowns.min() of calculate_metrics
MaxDrawdown(series) ==
    LET cumulative_returns == Cumprod(Returns(series))
        rolling_max == ExpandingMax(cumulative_returns)
        drawdowns == [k \in DOMAIN series |->
                         Drawdown(cumulative_returns[k], rolling_max[k])]
    IN  SeriesMin(drawdowns)

\* trade_pairs[symbol]: the trades of one symbol, in the order of the log
TradesOf(log, symbol) == SelectSeq(log, LAMBDA t : t.symbol = symbol)

\* symbol_trades.sort(key=lambda x: x.trade_date): a stable sort
RECURSIVE SortByDate(_)
SortByDate(log) ==
    IF log = <<>> THEN <<>>
    ELSE LET before == SortByDate(SubSeq(log, 1, Len(log) - 1))
             t == log[Len(log)]
             n == Cardinality({i \in DOMAIN before :
                                  before[i].trade_date <= t.trade_date})
         IN  SubSeq(before, 1, n) \o <<t>> \o SubSeq(before, n + 1, Len(before))

Min(a, b) == IF a < b THEN a ELSE b

\* a missing test: every sell is paired, with or without an open quantity
Paired_m(position) == TRUE

\* position > 0: the sell meets an open quantity of its symbol
Paired(position) == position > 0

\* the pairing loop over the sorted trades of one symbol: position and
\* cost_basis after the last trade, and what the loop added to
\* profitable_trades and total_paired_trades
RECURSIVE Pairing(_)
Pairing(symbol_trades) ==
    IF symbol_trades = <<>>
    THEN [position |-> 0, cost_basis |-> 0, profitable_trades |-> 0,
          total_paired_trades |-> 0]
    ELSE LET s == Pairing(SubSeq(symbol_trades, 1, Len(symbol_trades) - 1))
             trade == symbol_trades[Len(symbol_trades)]
         IN  IF trade.action = "buy"
             THEN [s EXCEPT !.cost_basis = IF s.position = 0 THEN trade.price ELSE @,
                            !.position = @ + trade.quantity]
             ELSE IF trade.action = "sell" /\ Paired(s.position)
             THEN LET profit == (trade.price - s.cost_basis)
                                   * Min(trade.quantity, s.position)
                  IN  [s EXCEPT !.profitable_trades = IF profit > 0 THEN @ + 1 ELSE @,
                                !.total_paired_trades = @ + 1,
                                !.position = @ - trade.quantity]
             ELSE s

\* profitable_trades and total_paired_trades over the symbols of the log
PairedTrades(log) ==
    LET RECURSIVE Sum(_)
        Sum(S) == IF S = {} THEN [profitable_trades |-> 0, total_paired_trades |-> 0]
                  ELSE LET s == CHOOSE x \in S : TRUE
                           own == Pairing(SortByDate(TradesOf(log, s)))
                           rest == Sum(S \ {s})
                       IN  [profitable_trades |->
                               own.profitable_trades + rest.profitable_trades,
                            total_paired_trades |->
                               own.total_paired_trades + rest.total_paired_trades]
    IN  Sum({log[i].symbol : i \in DOMAIN log})

\* BacktestResult.calculate_metrics() on the summary s of a result with the
\* trade log and the daily series given: total_return, max_drawdown, win_rate
\* and total_trades (annualized_return, volatility and sharpe_ratio are left
\* out of the summary record)
calculate_metrics(s, log, series) ==
    IF series = <<>> THEN s
    ELSE LET counts == PairedTrades(log)
         IN  [s EXCEPT
                 !.total_return = FracSub(Frac(s.final_value, s.initial_cash), FracInt(1)),
                 !.max_drawdown = MaxDrawdown(series),
                 !.win_rate = IF log # <<>> /\ counts.total_paired_trades > 0
                              THEN Frac(counts.profitable_trades,
                                        counts.total_paired_trades)
                              ELSE @,
                 !.total_trades = IF log # <<>> THEN Len(log) ELSE @]

\* a wrong final value: the cash alone, as if the positions were gone
FinalValue_m(last) == last.cash

\* final_value of the summary: total_value of the last date
FinalValue(last) == last.total_value

\* BacktestSummary(...) as _execute_backtest builds it after the last date
BacktestSummary(initial, last, log, days) ==
    [initial_cash |-> initial,
     final_value |-> FinalValue(last),
     total_return |-> last.cumulative_return,
     max_drawdown |-> FracInt(0),
     win_rate |-> FracInt(0),
     total_trades |-> Len(log),
     trading_days |-> days]

\* the end of _execute_backtest: the summary, then result.calculate_metrics()
Finish ==
    /\ pc = "date"
    /\ dates_done = Len(trade_dates)
    /\ summary' = calculate_metrics(
                      BacktestSummary(initial_cash, daily_returns[Len(daily_returns)],
                                      trades, Len(trade_dates)),
                      trades, daily_returns)
    /\ pc' = "done"
    /\ UNCHANGED <<buy_strategy, sell_strategy, commission_rate, strategies,
                   initial_cash, previous_total_value, current_cash, positions,
                   trades, daily_returns, dates_done, daily_data, row, calls,
                   ledger_calls, update_call, price_data, earlier, strategy_config, price_dates, setup,
                   on_bar_state, signals,
                   strategy_object>>

Next == RunBacktest \/ StartDate \/ BuyStep \/ SellStep \/ Valuation \/ Finish

Spec == Init /\ [][Next]_vars

\* runs of strategies sized like the shipped ones
InitShipped == InitRun(StrategyPairs, ShippedSizings, OrderedFeeds(MaxDates))

SpecShipped == InitShipped /\ [][Next]_vars

\* runs over price frames whose rows come in any order of dates
InitDates == InitRun({<<"o1", None>>, <<None, "o2">>}, {AnyStrategy}, AnyFeeds(MaxDates))

SpecDates == InitDates /\ [][Next]_vars

\* runs of SimpleMAStrategy objects
InitMA == InitRun(StrategyPairs, {SimpleMA}, OrderedFeeds(MaxDatesMA))

SpecMA == InitMA /\ [][Next]_vars

\* ------------------------------------------------ the same backtest twice
\* the frames _load_price_data can return for the dates of the feed
Frames(dates) == [1..Len(dates) -> DailyDatas]

\* SimpleMAStrategy objects constructed with config.initial_cash = cash
NewStrategies(cash) == [o \in Objects |-> [cash |-> cash, positions |-> <<>>]]

\* run_backtest called a second time with the same arguments on the same
\* price source, once the first call has returned: either with the strategy
\* objects of the first call (nothing resets them: initialize() of
\* SimpleMAStrategy only logs), or with objects constructed anew from the
\* same configuration, as StrategyService does for each of its runs
RunAgain ==
    /\ pc = "done"
    /\ ~earlier.ran
    /\ \E fresh \in BOOLEAN :
          /\ earlier' = [ran |-> TRUE, fresh |-> fresh, trades |-> trades,
                         daily_returns |-> daily_returns]
          /\ strategies' = IF fresh THEN NewStrategies(initial_cash) ELSE strategies
          /\ on_bar_state' = IF fresh THEN [o \in Objects |-> NoBars] ELSE on_bar_state
    /\ pc' = "run"
    /\ setup' = [initialized |-> {}, loaded |-> FALSE]
    /\ positions' = <<>>
    /\ trades' = <<>>
    /\ daily_returns' = <<>>
    /\ dates_done' = 0
    /\ daily_data' = <<>>
    /\ row' = 0
    /\ calls' = <<>>
    /\ signals' = <<>>
    /\ summary' = None
    /\ UNCHANGED <<buy_strategy, sell_strategy, commission_rate, initial_cash,
                   previous_total_value, current_cash, ledger_calls, update_call,
                   strategy_config, price_dates, price_data,
                   strategy_object>>

\* runs of SimpleMAStrategy objects over a frame known beforehand
InitReplay ==
    /\ RunArguments(StrategyPairs, {SimpleMA}, OrderedFeeds(MaxDatesMA))
    /\ price_data \in Frames(price_dates)

NextReplay == Next \/ RunAgain

SpecReplay == InitReplay /\ [][NextReplay]_vars

\* ------------------------------------- signal strategies called directly
\* a strategy object of one of the classes, on its own
InitHistory ==
    /\ pc = "signal"
    /\ strategy_object \in {NewObject(class) : class \in Classes}
    /\ buy_strategy = None
    /\ sell_strategy = None
    /\ commission_rate = 0
    /\ initial_cash = 0
    /\ strategies = NewStrategies(0)
    /\ previous_total_value = 0
    /\ current_cash = 0
    /\ positions = <<>>
    /\ trades = <<>>
    /\ daily_returns = <<>>
    /\ dates_done = 0
    /\ daily_data = <<>>
    /\ row = 0
    /\ calls = <<>>
    /\ summary = None
    /\ ledger_calls = 0
    /\ update_call = NoCall
    /\ price_data = <<>>
    /\ earlier = NoEarlierRun
    /\ strategy_config = AnyStrategy
    /\ price_dates = <<>>
    /\ setup = [initialized |-> {}, loaded |-> FALSE]
    /\ on_bar_state = [o \in Objects |-> NoBars]
    /\ signals = <<>>

\* what a directly called handler leaves alone
EngineUnchanged ==
    UNCHANGED <<pc, buy_strategy, sell_strategy, commission_rate, strategies,
                initial_cash, previous_total_value, current_cash, positions,
                trades, daily_returns, dates_done, daily_data, row, calls,
                summary, ledger_calls, update_call, price_data, earlier,
                strategy_config, price_dates, setup, on_bar_state, signals>>

\* SimpleMAStrategy.on_bar(symbol, bar)
CallSimpleMAOnBar ==
    /\ pc = "signal"
    /\ strategy_object.class = "SimpleMAStrategy"
    /\ \E symbol \in Symbols, held \in BOOLEAN :
       \E close \in Closes[symbol] :
          LET bar == OnBar([price_history |-> strategy_object.price_history,
                            last_signal |-> strategy_object.last_signal],
                           held, symbol, close)
          IN  strategy_object' =
                 [strategy_object EXCEPT !.price_history = bar.state.price_history,
                                         !.last_signal = bar.state.last_signal]
    /\ EngineUnchanged

\* RedThreeSoldiersStrategy.on_bar(symbol, bar)
CallRedThreeSoldiersOnBar ==
    /\ pc = "signal"
    /\ strategy_object.class = "RedThreeSoldiersStrategy"
    /\ \E symbol \in Symbols, held \in BOOLEAN, pattern \in BOOLEAN :
       \E bar \in Bars(symbol) :
          strategy_object' =
             RedThreeSoldiersOnBar(strategy_object, held, pattern, symbol, bar).state
    /\ EngineUnchanged

\* generate_buy_signal(symbol, bar) of the combined RedThreeSoldiersStrategy
CallCombinedBuySignal ==
    /\ pc = "signal"
    /\ strategy_object.class = "combined RedThreeSoldiersStrategy"
    /\ \E symbol \in Symbols, held \in BOOLEAN, pattern \in BOOLEAN :
       \E bar \in Bars(symbol) :
          strategy_object' =
             CombinedBuySignal(strategy_object, held, pattern, symbol, bar).state
    /\ EngineUnchanged

\* generate_sell_signal(symbol, bar) of the combined RedThreeSoldiersStrategy
CallCombinedSellSignal ==
    /\ pc = "signal"
    /\ strategy_object.class = "combined RedThreeSoldiersStrategy"
    /\ \E symbol \in Symbols, held \in BOOLEAN, stop \in BOOLEAN :
       \E bar \in Bars(symbol) :
          strategy_object' =
             CombinedSellSignal(strategy_object, held, stop, symbol, bar).state
    /\ EngineUnchanged

\* generate_buy_signal(symbol, bar) of the buy-only RedThreeSoldiersStrategy
CallBuyOnlyBuySignal ==
    /\ pc = "signal"
    /\ strategy_object.class = "buy RedThreeSoldiersStrategy"
    /\ \E symbol \in Symbols, held \in BOOLEAN, pattern \in BOOLEAN :
       \E bar \in Bars(symbol) :
          strategy_object' =
             BuyOnlyBuySignal(strategy_object, held, pattern, symbol, bar).state
    /\ EngineUnchanged

NextHistory ==
    \/ CallSimpleMAOnBar
    \/ CallRedThreeSoldiersOnBar
    \/ CallCombinedBuySignal
    \/ CallCombinedSellSignal
    \/ CallBuyOnlyBuySignal

SpecHistory == InitHistory /\ [][NextHistory]_vars

\* ------------------------------------------- BaseStrategy used directly
\* number of update_position calls a direct caller makes
MaxCalls == 4

\* a strategy object on its own, not handed to an engine
InitLedger ==
    /\ pc = "ledger"
    /\ buy_strategy = "o1"
    /\ sell_strategy = None
    /\ commission_rate = 0
    /\ \E c \in InitialCash :
          /\ initial_cash = c * RateDen
          /\ strategies = [o \in Objects |-> [cash |-> c * RateDen, positions |-> <<>>]]
    /\ previous_total_value = initial_cash
    /\ current_cash = initial_cash
    /\ positions = <<>>
    /\ trades = <<>>
    /\ daily_returns = <<>>
    /\ dates_done = 0
    /\ daily_data = <<>>
    /\ row = 0
    /\ calls = <<>>
    /\ summary = None
    /\ ledger_calls = 0
    /\ update_call = NoCall
    /\ price_data = <<>>
    /\ earlier = NoEarlierRun
    /\ strategy_object = NoObject
    /\ strategy_config = AnyStrategy
    /\ price_dates = <<>>
    /\ setup = [initialized |-> {}, loaded |-> FALSE]
    /\ on_bar_state = [o \in Objects |-> NoBars]
    /\ signals = <<>>

\* strategy.update_position(symbol, quantity, price, action), any arguments
LedgerCall ==
    /\ pc = "ledger"
    /\ ledger_calls < MaxCalls
    /\ \E symbol \in Symbols, quantity \in {100, 300}, action \in {"buy", "sell"} :
       \E price \in Closes[symbol] :
          /\ strategies' = [strategies EXCEPT !["o1"] =
                            UpdatePosition(strategies["o1"], symbol, quantity, price, action)]
          /\ update_call' = UpdateCall(symbol, quantity, price, action,
                               UpdateOutcome(strategies["o1"], symbol, quantity, action))
    /\ ledger_calls' = ledger_calls + 1
    /\ UNCHANGED <<pc, buy_strategy, sell_strategy, commission_rate, initial_cash,
                   previous_total_value, current_cash, positions, trades,
                   daily_returns, dates_done, daily_data, row, calls, summary,
                   strategy_config, price_dates, setup, on_bar_state, signals,
                   price_data, earlier,
                   strategy_object>>

NextLedger == Next \/ LedgerCall

\* an engine run, or a strategy object driven by direct update_position calls
SpecLedger == (Init \/ InitLedger) /\ [][NextLedger]_vars

\* ------------------------------------ calculate_metrics called directly
\* number of dates of a result handed to calculate_metrics
MaxSeries == 5
\* number of trades of a result handed to calculate_metrics
MaxLog == 3

\* total values of a date, in currency units: the values of the five-date
\* scenario, and a negative one (a run with a commission rate above 100 %)
TotalValues == {98000, 100000, 105000, 108000, 110000, -26600}
\* trade dates of the trades of a log
LogDates == {1, 2}

\* the sequences of at most n elements of S
SeqsUpTo(S, n) == UNION {[1..k -> S] : k \in 0..n}

\* the daily series of a run with the total values given, as the date loop
\* records it (everything held in cash)
SeriesOf(values, initial) ==
    [k \in DOMAIN values |->
        DailyReturn(k, values[k] * RateDen, 0,
                    IF k = 1 THEN initial ELSE values[k - 1] * RateDen,
                    initial, <<>>)]

\* the trades a log may hold, commission left at 0
LogTrades ==
    UNION {{Trade(s, d, a, q, p, Amount(q, p), 0) :
               d \in LogDates, a \in {"buy", "sell"}, q \in {100, 300},
               p \in Closes[s]} : s \in Symbols}

\* a BacktestResult(summary, trades, daily_returns) before calculate_metrics:
\* its series built of the total values, its log one of logs
InitMetrics(initials, totals, logs) ==
    /\ pc = "metrics"
    /\ buy_strategy = "o1"
    /\ sell_strategy = None
    /\ commission_rate = 0
    /\ \E c \in initials :
          /\ initial_cash = c * RateDen
          /\ strategies = [o \in Objects |-> [cash |-> c * RateDen, positions |-> <<>>]]
    /\ previous_total_value = initial_cash
    /\ current_cash = initial_cash
    /\ positions = <<>>
    /\ trades \in logs
    /\ \E values \in totals : daily_returns = SeriesOf(values, initial_cash)
    /\ dates_done = Len(daily_returns)
    /\ daily_data = <<>>
    /\ row = 0
    /\ calls = <<>>
    /\ summary = IF daily_returns = <<>> THEN EmptySummary(strategies["o1"])
                 ELSE BacktestSummary(initial_cash, daily_returns[Len(daily_returns)],
                                      trades, Len(daily_returns))
    /\ ledger_calls = 0
    /\ update_call = NoCall
    /\ price_data = <<>>
    /\ earlier = NoEarlierRun
    /\ strategy_object = NoObject
    /\ strategy_config = AnyStrategy
    /\ price_dates = [k \in DOMAIN daily_returns |-> k]
    /\ setup = [initialized |-> {}, loaded |-> FALSE]
    /\ on_bar_state = [o \in Objects |-> NoBars]
    /\ signals = <<>>

\* result.calculate_metrics()
CalculateMetrics ==
    /\ pc = "metrics"
    /\ summary' = calculate_metrics(summary, trades, daily_returns)
    /\ pc' = "done"
    /\ UNCHANGED <<buy_strategy, sell_strategy, commission_rate, strategies,
                   initial_cash, previous_total_value, current_cash, positions,
                   trades, daily_returns, dates_done, daily_data, row, calls,
                   ledger_calls, update_call, price_data, earlier, strategy_config, price_dates, setup,
                   on_bar_state, signals,
                   strategy_object>>

NextMetrics == CalculateMetrics

\* results with any series of total values and no trade
InitDrawdown == InitMetrics(InitialCash, SeqsUpTo(TotalValues, MaxSeries), {<<>>})

SpecDrawdown == InitDrawdown /\ [][NextMetrics]_vars

\* results with any trade log, over one date (the result without a daily
\* record is among those of InitDrawdown)
InitWinRate == InitMetrics({100000}, {<<100000>>}, SeqsUpTo(LogTrades, MaxLog))

SpecWinRate == InitWinRate /\ [][NextMetrics]_vars

\* ------------------------------------------------------------ properties
LastOf(seq) == seq[Len(seq)]

\* this step appended one trade with the given action to the trade log
Executed(action) ==
    /\ Len(trades') = Len(trades) + 1
    /\ LastOf(trades').action = action

\* this step made one should_buy / should_sell call
Called(kind) ==
    /\ Len(calls') = Len(calls) + 1
    /\ LastOf(calls').kind = kind

RECURSIVE SumOver(_, _)
SumOver(S, f) ==
    IF S = {} THEN 0
    ELSE LET x == CHOOSE y \in S : TRUE IN f[x] + SumOver(S \ {x}, f)

\* C1, as claimed: the ledger cash is never negative, for any commission
\* rate >= 0 (fails: with a rate above 100 % a sell credits a negative net
\* amount).
C1_CashNeverNegative == current_cash >= 0

\* C1, amended: with a commission rate between 0 and 100 % the ledger cash
\* is >= 0 in every state of a run, and (for every rate) a buy whose
\* quantity*close + commission exceeds the available cash is never executed.
C1_CashNonNegativeUpToFullRate ==
    /\ [](commission_rate <= RateDen => current_cash >= 0)
    /\ [][Executed("buy") =>
            LastOf(trades').amount + LastOf(trades').commission <= current_cash]_vars

\* a buy signal of a quantity that costs more than the cash, not executed
C1_Witness ==
    /\ pc = "sell"
    /\ commission_rate <= RateDen
    /\ calls # <<>>
    /\ LET c == LastOf(calls)
           close == daily_data[row].close
       IN  /\ c.kind = "buy" /\ c.answer /\ c.quantity > 0
           /\ c.symbol = daily_data[row].ts_code
           /\ c.quantity * close * RateDen + c.quantity * close * commission_rate
                 > current_cash
           /\ \A i \in DOMAIN trades :
                 ~(trades[i].symbol = c.symbol /\ trades[i].trade_date = trade_date)

\* C2, as claimed: within a date the sell evaluation of a symbol (the
\* should_sell call and its trade) precedes the buy evaluation of that symbol
\* (fails: the buy block comes first in the row loop).
C2_SellEvaluatedBeforeBuy ==
    /\ \A i, j \in DOMAIN calls :
          (calls[i].symbol = calls[j].symbol /\ calls[i].kind = "sell"
             /\ calls[j].kind = "buy") => i < j
    /\ \A i, j \in DOMAIN trades :
          (trades[i].symbol = trades[j].symbol /\ trades[i].trade_date = trade_date
             /\ trades[j].trade_date = trade_date
             /\ trades[i].action = "sell" /\ trades[j].action = "buy") => i < j

\* C2, amended: within a date the buy evaluation of a symbol (the should_buy
\* call and its trade) precedes the sell evaluation of that symbol (the
\* should_sell call and its trade).
C2_BuyEvaluatedBeforeSell ==
    /\ \A i, j \in DOMAIN calls :
          (calls[i].symbol = calls[j].symbol /\ calls[i].kind = "buy"
             /\ calls[j].kind = "sell") => i < j
    /\ \A i, j \in DOMAIN trades :
          (trades[i].symbol = trades[j].symbol /\ trades[i].trade_date = trade_date
             /\ trades[j].trade_date = trade_date
             /\ trades[i].action = "buy" /\ trades[j].action = "sell") => i < j

\* both evaluations of a symbol made on one date, the symbol held since an
\* earlier date
C2_Witness ==
    /\ \E i, j \in DOMAIN calls :
          /\ calls[i].symbol = calls[j].symbol
          /\ calls[i].kind = "buy" /\ calls[j].kind = "sell"
          /\ \E k \in DOMAIN trades :
                /\ trades[k].symbol = calls[i].symbol
                /\ trades[k].trade_date < trade_date
                /\ trades[k].action = "buy"
    /\ pc \in {"buy", "sell", "value"}

\* C3, as claimed: the trade log never holds a buy and a sell of one symbol
\* on one date (fails: a symbol bought on a bar can be sold on that bar).
C3_NoBuyAndSellOnOneBar ==
    \A i, j \in DOMAIN trades :
        (trades[i].symbol = trades[j].symbol
           /\ trades[i].trade_date = trades[j].trade_date)
        => trades[i].action = trades[j].action

\* C3, amended: for every symbol and date the trade log holds at most one buy
\* and at most one sell, and when it holds both the buy comes first: a name
\* sold on a bar is not re-entered on that bar, a name bought on a bar can be
\* sold on that bar.
C3_AtMostBuyThenSellOnOneBar ==
    \A i, j \in DOMAIN trades :
        (i < j /\ trades[i].symbol = trades[j].symbol
           /\ trades[i].trade_date = trades[j].trade_date)
        => (trades[i].action = "buy" /\ trades[j].action = "sell")

\* a symbol bought and sold on one bar, by two different strategy objects
C3_Witness ==
    /\ buy_strategy # None /\ sell_strategy # None /\ buy_strategy # sell_strategy
    /\ \E i, j \in DOMAIN trades :
          /\ i < j
          /\ trades[i].symbol = trades[j].symbol
          /\ trades[i].trade_date = trades[j].trade_date
          /\ trades[i].action = "buy" /\ trades[j].action = "sell"

\* the buy trades of a symbol made since it was last flat
BuysSinceFlat(s) ==
    LET sells == {i \in DOMAIN trades : trades[i].symbol = s /\ trades[i].action = "sell"}
    IN  {i \in DOMAIN trades :
            /\ trades[i].symbol = s /\ trades[i].action = "buy"
            /\ \A k \in sells : k < i}

\* C4, as claimed: a buy is executed only for a symbol that has no entry in
\* the positions map (fails: the engine does not test it).
C4_BuyOnlyWhenFlat ==
    [][Executed("buy") => LastOf(trades').symbol \notin DOMAIN positions]_vars

\* C4, amended: a buy is executed for a flat or a held symbol alike; a buy of
\* a held symbol adds to its single entry, so an open position is the sum of
\* the one or more buy trades made since the symbol was last flat.
C4_PositionIsSumOfBuysSinceFlat ==
    \A s \in Symbols :
        /\ s \in DOMAIN positions <=> BuysSinceFlat(s) # {}
        /\ s \in DOMAIN positions =>
              positions[s].quantity =
                  SumOver(BuysSinceFlat(s), [i \in DOMAIN trades |-> trades[i].quantity])

\* a position made of two buys
C4_Witness ==
    \E s \in DOMAIN positions : Cardinality(BuysSinceFlat(s)) >= 2

\* C5: an executed buy of quantity q at close p debits the cash by exactly
\* q*p + q*p*rate, records a Trade with amount q*p and commission q*p*rate
\* at the bar's close, and leaves cash >= 0.
C5_BuyDebitsCostExactly ==
    [][Executed("buy") =>
         LET t == LastOf(trades')
         IN  /\ t.symbol = daily_data[row].ts_code
             /\ t.price = daily_data[row].close
             /\ t.amount = t.quantity * t.price * RateDen
             /\ t.commission = t.quantity * t.price * commission_rate
             /\ current_cash' = current_cash - (t.amount + t.commission)
             /\ current_cash' >= 0]_vars

\* a buy with a commission was just executed
C5_Witness ==
    /\ pc = "sell"
    /\ trades # <<>>
    /\ LastOf(trades).action = "buy"
    /\ LastOf(trades).trade_date = trade_date
    /\ LastOf(trades).symbol = daily_data[row].ts_code
    /\ LastOf(trades).commission > 0

\* C6: an executed sell sells the whole position at the bar's close: the
\* Trade's quantity is the quantity held before, the cash grows by exactly
\* q*close - q*close*rate, and the symbol has no entry afterwards.
C6_SellIsWholePosition ==
    [][Executed("sell") =>
         LET t == LastOf(trades')
         IN  /\ t.symbol = daily_data[row].ts_code
             /\ t.price = daily_data[row].close
             /\ t.symbol \in DOMAIN positions
             /\ t.quantity = positions[t.symbol].quantity
             /\ t.amount = t.quantity * t.price * RateDen
             /\ t.commission = t.quantity * t.price * commission_rate
             /\ current_cash' = current_cash + t.amount - t.commission
             /\ t.symbol \notin DOMAIN positions']_vars

\* a position of more than one lot was just sold, with a commission
C6_Witness ==
    /\ trades # <<>>
    /\ LastOf(trades).action = "sell"
    /\ LastOf(trades).quantity > 100
    /\ LastOf(trades).commission > 0
    /\ LastOf(trades).symbol \notin DOMAIN positions

\* C7: a buy signal that cannot be executed (cash not above 1000, quantity 0,
\* or cost above the cash) leaves cash, positions and trade log unchanged,
\* and every executed buy answers a should_buy call of that very bar.
C7_DroppedBuySignalLeavesNoTrace ==
    [][/\ (pc = "buy" /\ current_cash <= 1000 * RateDen) =>
             (calls' = calls /\ UNCHANGED <<current_cash, positions, trades>>)
       /\ (Called("buy") /\ LastOf(calls').answer
             /\ (\/ LastOf(calls').quantity = 0
                 \/ LastOf(calls').quantity * daily_data[row].close
                       * (RateDen + commission_rate) > current_cash)) =>
             UNCHANGED <<current_cash, positions, trades>>
       /\ Executed("buy") =>
             /\ Called("buy")
             /\ LastOf(calls') = [symbol |-> LastOf(trades').symbol, kind |-> "buy",
                                  answer |-> TRUE,
                                  quantity |-> LastOf(trades').quantity]
             /\ LastOf(trades').symbol = daily_data[row].ts_code
             /\ LastOf(trades').trade_date = trade_date]_vars

\* 300 shares at 50 asked with 10,000 cash and 0.1 % commission: nothing
\* bought, no position, cash still 10,000
C7_Witness ==
    /\ pc = "sell"
    /\ commission_rate = 1
    /\ current_cash = 10000 * RateDen
    /\ daily_data[row].close = 50
    /\ calls # <<>>
    /\ LastOf(calls) = [symbol |-> daily_data[row].ts_code, kind |-> "buy",
                        answer |-> TRUE, quantity |-> 300]
    /\ Cardinality(DOMAIN positions) = 0
    /\ trades = <<>>

\* the value at the date's close of a symbol's position, 0 without a position
\* or without a bar of the symbol on the date
HeldValue ==
    [s \in Symbols |->
        IF s \in DOMAIN positions /\ \E k \in DOMAIN daily_data : daily_data[k].ts_code = s
        THEN LET k == CHOOSE k \in DOMAIN daily_data : daily_data[k].ts_code = s
             IN  positions[s].quantity * daily_data[k].close * RateDen
        ELSE 0]

\* C8: every DailyReturn has total_value = cash + stock_value, cash being the
\* ledger cash after the date's trades and stock_value the sum of
\* quantity*close of the date over the open positions (those with a bar on
\* the date), whatever the previous total was.
C8_TotalIsCashPlusStock ==
    [][Len(daily_returns') = Len(daily_returns) + 1 =>
         LET dr == LastOf(daily_returns')
         IN  /\ dr.trade_date = trade_date
             /\ dr.cash = current_cash
             /\ dr.stock_value = SumOver(Symbols, HeldValue)
             /\ dr.total_value = dr.cash + dr.stock_value
             /\ daily_returns' = Append(daily_returns, dr)]_vars

\* a second valuation with stock held and a total that differs from the
\* previous date's
C8_Witness ==
    /\ Len(daily_returns) >= 2
    /\ LastOf(daily_returns).stock_value > 0
    /\ LastOf(daily_returns).cash # initial_cash
    /\ LastOf(daily_returns).total_value
          # daily_returns[Len(daily_returns) - 1].total_value

\* the average-cost rule between two states of a positions map
AvgRule(old, new) ==
    \A s \in DOMAIN new :
        LET o == IF s \in DOMAIN old THEN old[s] ELSE PositionInfo(s)
            n == new[s]
            q == n.quantity - o.quantity
        IN  /\ n.avg_price # o.avg_price => q > 0
            /\ q > 0 => \E p \in Closes[s] :
                  n.avg_price = Frac(o.quantity * o.avg_price.n + q * p * o.avg_price.d,
                                     o.avg_price.d * (o.quantity + q))
            /\ q < 0 => n.avg_price = o.avg_price

\* C9: a position's average cost changes only by a buy, to
\* (old_qty*old_avg + new_qty*price)/(old_qty + new_qty); a sell leaves it
\* unchanged.  For the engine's positions map and for update_position.
C9_AvgCostChangesOnlyOnBuy ==
    [][/\ AvgRule(positions, positions')
       /\ \A o \in Objects : AvgRule(strategies[o].positions, strategies'[o].positions)]_vars

\* a strategy's position bought at two prices and then sold in part
C9_Witness ==
    /\ pc = "ledger"
    /\ \E s \in DOMAIN strategies["o1"].positions :
          LET pos == strategies["o1"].positions[s]
          IN  /\ pos.avg_price.d > 1
              /\ pos.realized_pnl # FracInt(0)
              /\ pos.quantity > 0

\* C10: every entry of the ledger's positions map has quantity > 0, an entry
\* appears only by an executed buy, and the 'positions' count of a
\* DailyReturn is the number of symbols held.
C10_PositionsArePositive ==
    /\ [](\A s \in DOMAIN positions : positions[s].quantity > 0)
    /\ []((pc = "date" /\ daily_returns # <<>>) =>
            LastOf(daily_returns).positions =
               Cardinality({s \in Symbols : s \in DOMAIN positions
                                             /\ positions[s].quantity > 0}))
    /\ [][\A s \in Symbols :
            (s \notin DOMAIN positions /\ s \in DOMAIN positions') =>
               (Executed("buy") /\ LastOf(trades').symbol = s)]_vars

\* a date closed with one symbol held and another one sold on that date
C10_Witness ==
    /\ pc = "date"
    /\ daily_returns # <<>>
    /\ LastOf(daily_returns).positions = 1
    /\ \E i \in DOMAIN trades :
          /\ trades[i].action = "sell"
          /\ trades[i].trade_date = dates_done
          /\ trades[i].symbol \notin DOMAIN positions

\* C11: with strategies sized like the shipped ones (get_position_size
\* rounds down to a multiple of 100) every trade, buy or sell, has a quantity
\* that is a positive multiple of 100; a buy signal sized 0 is not executed.
C11_TradesAreWholeLots ==
    /\ [](\A i \in DOMAIN trades :
             trades[i].quantity > 0 /\ trades[i].quantity % 100 = 0)
    /\ [](\A i \in DOMAIN calls : calls[i].quantity % 100 = 0)
    /\ [][(Called("buy") /\ LastOf(calls').answer /\ LastOf(calls').quantity = 0)
            => trades' = trades]_vars

\* a position of several lots, sized by get_position_size, was sold as a
\* whole after a signal sized 0 was dropped on that date
C11_Witness ==
    /\ strategy_config.position_pct # {}
    /\ trades # <<>>
    /\ LastOf(trades).action = "sell"
    /\ LastOf(trades).quantity > 300
    /\ \E i \in DOMAIN calls :
          calls[i].kind = "buy" /\ calls[i].answer /\ calls[i].quantity = 0


\* the cash a trade log leaves of the initial cash: every buy takes amount +
\* commission, every sell gives amount - commission
RECURSIVE CashAfter(_)
CashAfter(log) ==
    IF log = <<>> THEN initial_cash
    ELSE LET t == LastOf(log)
             before == CashAfter(SubSeq(log, 1, Len(log) - 1))
         IN  IF t.action = "buy" THEN before - (t.amount + t.commission)
             ELSE before + (t.amount - t.commission)

\* the last two trades of the log are a buy and a sell of the same quantity of
\* one symbol at one price
RoundTrip(log) ==
    /\ Len(log) >= 2
    /\ LET b == log[Len(log) - 1]
           s == log[Len(log)]
       IN  /\ b.action = "buy" /\ s.action = "sell"
           /\ b.symbol = s.symbol /\ b.quantity = s.quantity /\ b.price = s.price

\* C12: with a commission rate of 0, a buy followed by a sell of the same
\* quantity at the same price realizes a P/L of 0 on the position (in the
\* engine's map and in the selling strategy's own) and leaves the ledger cash
\* at the balance it had before the buy.
C12_RoundTripAtZeroCommission ==
    [][(Executed("sell") /\ RoundTrip(trades') /\ commission_rate = 0) =>
         LET s == LastOf(trades')
             own == strategies[sell_strategy].positions
         IN  /\ SellPnl(positions[s.symbol], s.quantity, s.price) = FracInt(0)
             /\ (s.symbol \in DOMAIN own /\ own[s.symbol].quantity = s.quantity) =>
                   SellPnl(own[s.symbol], s.quantity, s.price) = FracInt(0)
             /\ current_cash' = CashAfter(SubSeq(trades, 1, Len(trades) - 1))
             /\ current_cash' = current_cash + LastOf(trades).amount]_vars

\* 100 shares bought at 10 on one date and sold at 10 on the next one without
\* commission, after another trade that took cash
C12_Witness ==
    /\ commission_rate = 0
    /\ Len(trades) = 3
    /\ RoundTrip(trades)
    /\ trades[2].trade_date < trades[3].trade_date
    /\ current_cash = CashAfter(<<trades[1]>>)
    /\ current_cash < initial_cash

\* the sell of the scenario: initial capital 100,000, commission rate 0.1 %,
\* symbol A alone, 100 shares bought at 10 on date 1 and sold at 11 on date 2
ScenarioSell ==
    /\ Executed("sell")
    /\ initial_cash = 100000 * RateDen
    /\ commission_rate = 1
    /\ Len(trades) = 1
    /\ trades[1] = Trade("A", 1, "buy", 100, 10, trades[1].amount, trades[1].commission)
    /\ daily_returns = <<DailyReturn(1, 98999 * RateDen, 1000 * RateDen,
                                     initial_cash, initial_cash, <<1>>)>>
    /\ daily_data = <<[ts_code |-> "A", close |-> 11]>>

\* what the scenario's trades and cash are: amounts 1,000.00 and 1,100.00,
\* commissions 1.00 and 1.10, final cash 100,097.90
ScenarioTradesAndCash ==
    /\ trades'[1].amount = 1000 * RateDen
    /\ trades'[1].commission = 1 * RateDen
    /\ trades'[2].quantity = 100
    /\ trades'[2].amount = 1100 * RateDen
    /\ trades'[2].commission = 1100
    /\ current_cash' = 100097900

\* the realized P/L the sell records on the position before it removes it
ScenarioRealizedPnl ==
    FracAdd(positions["A"].realized_pnl, SellPnl(positions["A"], 100, 11))

\* C13, as claimed: in the scenario the buy Trade has amount 1,000.00 and
\* commission 1.00, the sell Trade amount 1,100.00 and commission 1.10, the
\* realized P/L recorded for the position is 97.90 and the final cash is
\* 100,097.90 (fails: the code records a realized P/L of 100.00, the
\* commissions are not taken off it).
C13_ScenarioRealizes9790 ==
    [][ScenarioSell =>
         (ScenarioTradesAndCash /\ ScenarioRealizedPnl = Frac(9790, 100))]_vars

\* what the code does in the scenario: the same trades and cash, and a
\* realized P/L of 100.00
C13_ScenarioRealizes10000 ==
    [][ScenarioSell =>
         (ScenarioTradesAndCash /\ ScenarioRealizedPnl = FracInt(100))]_vars

\* the scenario was played to its end
C13_Witness ==
    /\ pc = "done"
    /\ initial_cash = 100000 * RateDen
    /\ commission_rate = 1
    /\ Len(trades) = 2
    /\ trades[1] = Trade("A", 1, "buy", 100, 10, 1000 * RateDen, 1 * RateDen)
    /\ trades[2] = Trade("A", 2, "sell", 100, 11, 1100 * RateDen, 1100)
    /\ summary.final_value = 100097900

\* C14: a run records one DailyReturn for each distinct trade date of the
\* price data, in strictly ascending order of date whatever the order the
\* rows come in, and summary.trading_days is the number of these records.
C14_OneRecordPerDateAscending ==
    /\ \A i, j \in DOMAIN daily_returns :
          i < j => daily_returns[i].trade_date < daily_returns[j].trade_date
    /\ {daily_returns[i].trade_date : i \in DOMAIN daily_returns}
          \subseteq {price_dates[i] : i \in DOMAIN price_dates}
    /\ pc = "done" =>
          /\ {daily_returns[i].trade_date : i \in DOMAIN daily_returns}
                = {price_dates[i] : i \in DOMAIN price_dates}
          /\ summary.trading_days = Len(daily_returns)

\* a run over rows that came latest date first, finished with two records
C14_Witness ==
    /\ pc = "done"
    /\ \E i, j \in DOMAIN price_dates : i < j /\ price_dates[i] > price_dates[j]
    /\ Len(daily_returns) = 2
    /\ summary.trading_days = 2

\* the total value the return of the k-th date is measured against: the
\* initial cash on the first date, the total recorded for the date before
PreviousTotal(k) ==
    IF k = 1 THEN initial_cash ELSE daily_returns[k - 1].total_value

C16_EmptyDataGivesEmptyResult ==
    (price_dates = <<>> /\ pc # "ledger" /\ ~NoStrategy(buy_strategy, sell_strategy)) =>
        /\ pc \in {"run", "done"}
        /\ trades = <<>> /\ daily_returns = <<>>
        /\ pc = "done" =>
              /\ summary.final_value = summary.initial_cash
              /\ summary.initial_cash = strategies[main_strategy].cash
              /\ summary.initial_cash = initial_cash
              /\ summary.total_return = FracInt(0)
              /\ summary.total_trades = 0
              /\ summary.trading_days = 0

\* the empty result of a run with a sell strategy alone
C16_Witness ==
    /\ pc = "done"
    /\ price_dates = <<>>
    /\ buy_strategy = None
    /\ setup = [initialized |-> {sell_strategy}, loaded |-> TRUE]
    /\ summary.final_value = initial_cash
    /\ summary.trading_days = 0

\* C17: run_backtest without any strategy raises ValueError before a strategy
\* is initialized or the data loaded, and with a strategy it does not; with a
\* buy strategy alone the trade log never holds a sell; with a sell strategy
\* alone it never holds a trade and every daily total is the initial capital.
C17_RolesOfTheStrategies ==
    /\ pc = "ValueError" =>
          /\ buy_strategy = None /\ sell_strategy = None
          /\ setup = [initialized |-> {}, loaded |-> FALSE]
          /\ trades = <<>> /\ daily_returns = <<>> /\ summary = None
    /\ (buy_strategy = None /\ sell_strategy = None) => pc \in {"run", "ValueError"}
    /\ sell_strategy = None => \A i \in DOMAIN trades : trades[i].action # "sell"
    /\ buy_strategy = None =>
          /\ trades = <<>>
          /\ \A k \in DOMAIN daily_returns : daily_returns[k].total_value = initial_cash

\* a run with a sell strategy alone, finished after two dates
C17_Witness ==
    /\ pc = "done"
    /\ buy_strategy = None /\ sell_strategy # None
    /\ setup.initialized = {sell_strategy}
    /\ Len(daily_returns) = 2
    /\ summary.final_value = initial_cash

\* the trade log holds a sell of the symbol on the date being processed
SoldToday(symbol) ==
    \E k \in DOMAIN trades :
        /\ trades[k].symbol = symbol
        /\ trades[k].action = "sell"
        /\ trades[k].trade_date = trade_date

\* C18, as claimed: with one on_bar strategy object as buy_strategy and as
\* sell_strategy, every bar on which on_bar decides SELL for a held symbol
\* ends with a sell trade of that symbol on that date, whatever the cash
\* (fails: with cash above 1000 the SELL is returned to should_buy, and the
\* second on_bar call of the bar, made by should_sell, returns HOLD).
C18_SellSignalsAreExecuted ==
    (pc = "value" /\ buy_strategy = sell_strategy) =>
        \A i \in DOMAIN signals :
            signals[i].signal = SELL => SoldToday(signals[i].symbol)

\* what the code does: a SELL decided in a should_sell call is executed, a
\* SELL decided in a should_buy call never is
C18_OnlyShouldSellSells ==
    (pc = "value" /\ buy_strategy = sell_strategy) =>
        \A i \in DOMAIN signals :
            signals[i].signal = SELL =>
                (SoldToday(signals[i].symbol) <=> signals[i].kind = "sell")

\* a SELL decided for a held symbol and lost to should_buy
C18_Witness ==
    /\ pc = "value" /\ buy_strategy = sell_strategy
    /\ \E i \in DOMAIN signals :
          /\ signals[i].signal = SELL /\ signals[i].kind = "buy"
          /\ ~SoldToday(signals[i].symbol)

\* the symbol has no row in the current date's daily_data
NoBar(s) == \A k \in DOMAIN daily_data : daily_data[k].ts_code # s

\* C19: on a date without a bar of a held symbol no trade is made for the
\* symbol and its position (quantity, average cost) stays as it is; and on
\* every date the valuation leaves such a position out of stock_value (it is
\* never carried forward), while cash and the positions count keep it.
C19_GapKeepsPositionOutOfValue ==
    [][/\ pc \in {"buy", "sell"} =>
             \A s \in Symbols : NoBar(s) =>
                 /\ s \in DOMAIN positions <=> s \in DOMAIN positions'
                 /\ s \in DOMAIN positions => positions'[s] = positions[s]
                 /\ Len(trades') > Len(trades) => LastOf(trades').symbol # s
                 /\ Len(calls') > Len(calls) => LastOf(calls').symbol # s
       /\ pc = "value" =>
             LET dr == LastOf(daily_returns')
                 gaps == {s \in DOMAIN positions : NoBar(s)}
                 bars == DOMAIN positions \ gaps
             IN  /\ dr.stock_value =
                       SumOver(bars, [s \in bars |->
                           positions[s].quantity * current_prices[s] * RateDen])
                 /\ dr.total_value = current_cash + dr.stock_value
                 /\ dr.positions = Cardinality(bars) + Cardinality(gaps)
                 /\ positions' = positions]_vars

\* the second date closed with a position in a symbol that had no bar on it:
\* a stock value of 0 after a positive one, the position still there
C19_Witness ==
    /\ pc = "date"
    /\ Len(daily_returns) = 2
    /\ daily_returns[1].stock_value > 0
    /\ daily_returns[2].stock_value = 0
    /\ daily_returns[2].positions = 1
    /\ \E s \in DOMAIN positions : NoBar(s) /\ positions[s].quantity > 0
    /\ \A k \in DOMAIN trades : trades[k].trade_date = 1

\* C20: the positions open after the last date are not liquidated: the end
\* of the run appends no trade and leaves positions and cash as they are;
\* summary.final_value is the total_value of the last DailyReturn, and
\* summary.total_return = final_value / initial_cash - 1 is the
\* cumulative_return of the last DailyReturn.
C20_OpenPositionsAreKeptAtTheEnd ==
    /\ [][(pc = "date" /\ pc' = "done") =>
             /\ trades' = trades
             /\ positions' = positions
             /\ current_cash' = current_cash
             /\ daily_returns' = daily_returns]_vars
    /\ []((pc = "done" /\ daily_returns # <<>>) =>
             LET last == LastOf(daily_returns)
             IN  /\ summary.final_value = last.total_value
                 /\ summary.final_value = current_cash + last.stock_value
                 /\ summary.total_return =
                       FracSub(Frac(summary.final_value, summary.initial_cash), FracInt(1))
                 /\ summary.total_return = last.cumulative_return
                 /\ summary.total_trades = Len(trades)
                 /\ \A k \in DOMAIN trades : trades[k].trade_date <= last.trade_date)

\* a run finished with a position still open, bought on the first date and
\* worth more on the last one
C20_Witness ==
    /\ pc = "done"
    /\ Len(daily_returns) = 2
    /\ LastOf(daily_returns).stock_value > 0
    /\ summary.final_value > initial_cash
    /\ summary.total_return.n > 0
    /\ \E s \in DOMAIN positions : positions[s].quantity > 0
    /\ LastOf(trades).action = "buy"

\* the running maximum of the total values up to the k-th date
PeakTotal(series, k) ==
    CHOOSE p \in {series[s].total_value : s \in 1..k} :
        \A s \in 1..k : series[s].total_value <= p

\* the minimum over the dates t of (V_t - peak_t) / peak_t
DrawdownOfTotals(series) ==
    LET dds == {Frac(series[k].total_value - PeakTotal(series, k),
                     PeakTotal(series, k)) : k \in DOMAIN series}
    IN  CHOOSE v \in dds : \A w \in dds : ~FracLess(w, v)

\* the total values of the five-date scenario, initial capital 100000
ScenarioTotals ==
    /\ initial_cash = 100000 * RateDen
    /\ [k \in DOMAIN daily_returns |-> daily_returns[k].total_value]
          = <<100000 * RateDen, 105000 * RateDen, 98000 * RateDen,
              110000 * RateDen, 108000 * RateDen>>

\* C21, as claimed: max_drawdown is the minimum over the dates of
\* (V_t - peak_t) / peak_t for every series of total values (fails: after a
\* total that is not positive the daily return is recorded as 0, and the
\* running product of calculate_metrics no longer follows the totals).
C21_DrawdownOfAnyTotals ==
    (pc = "done" /\ daily_returns # <<>>) =>
        summary.max_drawdown = DrawdownOfTotals(daily_returns)

\* C21, amended: when every total value is positive, max_drawdown is the
\* minimum over the dates t of (V_t - peak_t) / peak_t, peak_t being the
\* running maximum of the total values up to t; the five-date scenario
\* gives (98000 - 105000) / 105000.
C21_DrawdownOfPositiveTotals ==
    (pc = "done" /\ daily_returns # <<>>) =>
        /\ (\A k \in DOMAIN daily_returns : daily_returns[k].total_value > 0) =>
               summary.max_drawdown = DrawdownOfTotals(daily_returns)
        /\ ScenarioTotals =>
               summary.max_drawdown = Frac(98000 - 105000, 105000)

\* the metrics of the five-date scenario
C21_Witness ==
    /\ pc = "done"
    /\ ScenarioTotals
    /\ summary.max_drawdown = [n |-> -1, d |-> 15]

\* -1 <= x <= 0 for a fraction x
FromMinusOneToZero(x) == x.d > 0 /\ x.n <= 0 /\ x.n >= -x.d

\* C22, as claimed: the max_drawdown of every run with a positive initial
\* capital and prices >= 0 is <= 0 and >= -1 (fails: with a commission rate
\* above 100 % a sell takes the total value below zero, a drawdown below -1).
C22_DrawdownWithinTotalLoss ==
    pc = "done" => FromMinusOneToZero(summary.max_drawdown)

\* C22, amended: the max_drawdown of every run with a positive initial
\* capital, prices >= 0 and a commission rate below 100 % is <= 0 and >= -1.
C22_DrawdownWithinTotalLossBelowFullRate ==
    (pc = "done" /\ commission_rate < RateDen) =>
        FromMinusOneToZero(summary.max_drawdown)

\* a run with a commission rate of 0.1 % whose total value fell below an
\* earlier total
C22_Witness ==
    /\ pc = "done"
    /\ commission_rate = 1
    /\ trades # <<>>
    /\ summary.max_drawdown.n < 0
    /\ Len(daily_returns) = 2
    /\ daily_returns[1].total_value > daily_returns[2].total_value

\* the trades of a symbol as calculate_metrics walks them
SymbolTrades(s) == SortByDate(TradesOf(trades, s))

\* the first k elements of a sequence
FirstN(seq, k) == SubSeq(seq, 1, k)

\* the strategy ledger after the trades of a log, by update_position
RECURSIVE Replay(_)
Replay(log) ==
    IF log = <<>> THEN [cash |-> 0, positions |-> <<>>]
    ELSE LET t == log[Len(log)]
         IN  UpdatePosition(Replay(FirstN(log, Len(log) - 1)),
                            t.symbol, t.quantity, t.price, t.action)

\* the i-th trade of the symbol is a sell that the ledger can execute and
\* that calculate_metrics pairs
PairedSell(s, i) ==
    LET st == SymbolTrades(s)
        held == Replay(FirstN(st, i - 1)).positions
    IN  /\ st[i].action = "sell"
        /\ Pairing(FirstN(st, i - 1)).position > 0
        /\ s \in DOMAIN held
        /\ st[i].quantity <= held[s].quantity

\* calculate_metrics counted the i-th trade of the symbol as a win
CountedAsWin(s, i) ==
    LET st == SymbolTrades(s)
    IN  Pairing(FirstN(st, i)).profitable_trades
           = Pairing(FirstN(st, i - 1)).profitable_trades + 1

\* C23, as claimed: for every trade log, the cost basis calculate_metrics
\* holds for a sell is the ledger's weighted-average cost of the position at
\* that time, and the sell counts as a win exactly when its price is above
\* that average (fails: cost_basis is the price of the first buy and is not
\* updated by the buys that follow while the position is open).
C23_CostBasisIsAverageCost ==
    pc = "done" =>
        \A s \in Symbols : \A i \in DOMAIN SymbolTrades(s) :
            PairedSell(s, i) =>
                LET st == SymbolTrades(s)
                    avg == Replay(FirstN(st, i - 1)).positions[s].avg_price
                IN  /\ FracInt(Pairing(FirstN(st, i - 1)).cost_basis) = avg
                    /\ CountedAsWin(s, i) <=> FracLess(avg, FracInt(st[i].price))

\* the first buy of the symbol since its counted position was last 0, among
\* its first k trades
OpeningBuy(s, k) ==
    LET st == SymbolTrades(s)
    IN  CHOOSE j \in 1..k :
            /\ st[j].action = "buy"
            /\ Pairing(FirstN(st, j - 1)).position = 0
            /\ \A m \in (j + 1)..k :
                  ~(st[m].action = "buy" /\ Pairing(FirstN(st, m - 1)).position = 0)

\* what the code does: the cost basis of a sell is the price of the first
\* buy made since the position was last 0, and the sell is a win exactly
\* when its price is above that price
C23_CostBasisIsFirstBuyPrice ==
    pc = "done" =>
        \A s \in Symbols : \A i \in DOMAIN SymbolTrades(s) :
            PairedSell(s, i) =>
                LET st == SymbolTrades(s)
                    first == st[OpeningBuy(s, i - 1)].price
                IN  /\ Pairing(FirstN(st, i - 1)).cost_basis = first
                    /\ CountedAsWin(s, i) <=> st[i].price > first

\* 100 A bought at 11, 100 more at 10, then 100 sold at 11: above the average
\* cost of 10.5, and not counted as a win
C23_Witness ==
    /\ pc = "done"
    /\ daily_returns # <<>>
    /\ trades = <<Trade("A", 1, "buy", 100, 11, Amount(100, 11), 0),
                  Trade("A", 1, "buy", 100, 10, Amount(100, 10), 0),
                  Trade("A", 2, "sell", 100, 11, Amount(100, 11), 0)>>
    /\ summary.win_rate = FracInt(0)

\* the sells of the log that come after a buy of their symbol, in the order
\* of the dates
SellsAfterABuy ==
    {<<s, i>> \in Symbols \X (1..Len(trades)) :
        /\ i \in DOMAIN SymbolTrades(s)
        /\ SymbolTrades(s)[i].action = "sell"
        /\ \E j \in 1..(i - 1) : SymbolTrades(s)[j].action = "buy"}

\* C24: for every trade log the win_rate of the summary is within [0, 100]
\* (the code gives the fraction wins / paired sells, within [0, 1]); it is 0
\* when no sell of the log comes after a buy of its symbol; and the sells
\* counted in the denominator are all among the sells that come after a buy
\* of their symbol.
C24_WinRateCountsMatchedSells ==
    LET counts == PairedTrades(trades)
    IN  /\ summary.win_rate.d > 0
        /\ summary.win_rate.n >= 0
        /\ summary.win_rate.n <= 100 * summary.win_rate.d
        /\ summary.win_rate.n <= summary.win_rate.d
        /\ SellsAfterABuy = {} => summary.win_rate = FracInt(0)
        /\ counts.total_paired_trades <= Cardinality(SellsAfterABuy)
        /\ counts.profitable_trades <= counts.total_paired_trades
        /\ (pc = "done" /\ daily_returns # <<>> /\ counts.total_paired_trades > 0) =>
              summary.win_rate = Frac(counts.profitable_trades,
                                      counts.total_paired_trades)

\* a log of a sell without any buy of its symbol, a losing pair and a winning
\* pair: one win out of two
C24_Witness ==
    /\ pc = "done"
    /\ Len(trades) = 3
    /\ trades[1].action = "sell" /\ trades[1].symbol = "B"
    /\ trades[2] = Trade("A", 1, "buy", 300, 10, Amount(300, 10), 0)
    /\ trades[3] = Trade("A", 2, "sell", 300, 11, Amount(300, 11), 0)
    /\ summary.win_rate = FracInt(1)

\* the shares of a symbol a strategy object holds
HeldBy(st, symbol) ==
    IF symbol \in DOMAIN st.positions THEN st.positions[symbol].quantity ELSE 0

\* the step is an update_position call of a direct caller that asks to sell
\* more than the object holds (nothing, when the symbol is not held)
OversizedSellCall ==
    /\ pc = "ledger"
    /\ ledger_calls' = ledger_calls + 1
    /\ update_call'.action = "sell"
    /\ update_call'.quantity > HeldBy(strategies["o1"], update_call'.symbol)

\* C25: a sell request for more shares than the position holds, or for a
\* symbol that is not held, ends with an error and leaves the cash and the
\* positions map of the strategy as they were.
C25_OversizedSellFailsLoudly ==
    [][OversizedSellCall =>
          /\ update_call'.outcome = "raise"
          /\ strategies' = strategies]_vars

\* what update_position does with such a request: it returns, the cash and
\* every position held keep their values, and a symbol that was not in the
\* positions map is in it afterwards with an empty PositionInfo
C25_OversizedSellReturnsSilently ==
    [][OversizedSellCall =>
          LET st == strategies["o1"]
              symbol == update_call'.symbol
          IN  /\ update_call'.outcome = "return"
              /\ strategies'["o1"].cash = st.cash
              /\ strategies'["o1"].positions =
                    IF symbol \in DOMAIN st.positions THEN st.positions
                    ELSE With(st.positions, symbol, PositionInfo(symbol))]_vars

\* a sell of 300 A was asked of an object that holds 100 A: the call
\* returned and the 100 A are still held
C25_Witness ==
    /\ pc = "ledger"
    /\ update_call = UpdateCall("A", 300, 10, "sell", "return")
    /\ HeldBy(strategies["o1"], "A") = 100
    /\ "B" \notin DOMAIN strategies["o1"].positions

\* a sell of B was asked of an object that never held B: the call returned
\* and left an empty position of B behind
C25_EmptyPositionLeft ==
    /\ pc = "ledger"
    /\ update_call.action = "sell" /\ update_call.symbol = "B"
    /\ update_call.outcome = "return"
    /\ "B" \in DOMAIN strategies["o1"].positions
    /\ strategies["o1"].positions["B"].quantity = 0

\* C26: a second run of the same backtest (same bars, same commission rate,
\* same strategy configuration) returns the trade log and the DailyReturn
\* series of the first run, whatever the first run left behind.
C26_SecondRunRepeatsFirst ==
    (pc = "done" /\ earlier.ran) =>
        /\ trades = earlier.trades
        /\ daily_returns = earlier.daily_returns

\* the second run repeats the first when its strategy objects are
\* constructed anew from the same configuration
C26_SecondRunOnNewObjectsRepeatsFirst ==
    (pc = "done" /\ earlier.ran /\ earlier.fresh) =>
        /\ trades = earlier.trades
        /\ daily_returns = earlier.daily_returns

\* the first run bought A on date 2 (closes 10 then 11); the second run, on
\* the same objects and bars, is over with another trade log and another
\* DailyReturn series
C26_Witness ==
    /\ pc = "done"
    /\ earlier.ran /\ ~earlier.fresh
    /\ Len(earlier.trades) = 1
    /\ earlier.trades[1].action = "buy" /\ earlier.trades[1].symbol = "A"
    /\ earlier.trades[1].trade_date = 2
    /\ trades # earlier.trades
    /\ daily_returns # earlier.daily_returns

\* a second run on new objects is over with the buy of the first
C26_RepeatedRun ==
    /\ pc = "done"
    /\ earlier.ran /\ earlier.fresh
    /\ Len(earlier.trades) = 1
    /\ trades = earlier.trades
    /\ daily_returns = earlier.daily_returns

\* C27: the quantity get_position_size answers for a candidate buy is the
\* size computed from the engine's current_cash of that moment, the trades
\* made for earlier rows of the date included; and when the candidate is not
\* bought, the buy strategy's cash is left equal to current_cash.
C27_SizedOnCurrentCash ==
    [][(pc = "buy" /\ Len(calls') > Len(calls) /\ LastOf(calls').answer) =>
          /\ LastOf(calls').quantity \in
                PositionSizes(current_cash, daily_data[row].close)
          /\ Len(trades') = Len(trades) =>
                strategies'[buy_strategy].cash = current_cash]_vars

\* with 100,000 and a fifth of the cash for one buy, 2000 A at 10 and then,
\* on the same date, 300 B at 50: a fifth of the 80,000 left, where a fifth
\* of 100,000 would be 400 B
C27_Witness ==
    /\ Len(trades) = 2
    /\ trades[1].trade_date = trades[2].trade_date
    /\ trades[1].action = "buy" /\ trades[1].symbol = "A"
    /\ trades[1].quantity = 2000 /\ trades[1].price = 10
    /\ trades[2].action = "buy" /\ trades[2].symbol = "B"
    /\ trades[2].quantity = 300
    /\ initial_cash = 100000 * RateDen
    /\ commission_rate = 0

\* the number of entries a strategy class keeps for a symbol
HistoryBound(class) ==
    IF class = "SimpleMAStrategy" THEN 2 * long_window
    ELSE IF class = "buy RedThreeSoldiersStrategy" THEN BuyOnlyKeep
    ELSE IF class = "combined RedThreeSoldiersStrategy" THEN CombinedKeep
    ELSE OnBarKeep

\* C28: after any sequence of signal calls the history a strategy keeps for
\* a symbol has at most 2*long_window entries (SimpleMAStrategy), 4 bars (the
\* on_bar and the combined RedThreeSoldiersStrategy) or 8 bars (the buy-only
\* RedThreeSoldiersStrategy); and every call that changes a history leaves
\* the last entries of the old history with the new bar appended, the
\* oldest ones being dropped beyond the bound.
C28_HistoriesAreBounded ==
    /\ [](\A s \in Symbols :
            Len(strategy_object.price_history[s]) <= HistoryBound(strategy_object.class))
    /\ [][\A s \in Symbols :
            LET old == strategy_object.price_history[s]
                new == strategy_object.price_history'[s]
                keep == HistoryBound(strategy_object.class)
            IN  new # old =>
                  LET appended == Append(old, LastOf(new))
                  IN  new = IF Len(appended) > keep THEN LastN(appended, keep)
                            ELSE appended]_vars

\* the buy-only strategy holds 8 bars of A, the oldest of date 2 and the
\* others of date 1
C28_Witness ==
    /\ strategy_object.class = "buy RedThreeSoldiersStrategy"
    /\ Len(strategy_object.price_history["A"]) = BuyOnlyKeep
    /\ strategy_object.price_history["A"][1].trade_date = 2
    /\ \A k \in 2..BuyOnlyKeep : strategy_object.price_history["A"][k].trade_date = 1

\* the step executes a trade
TradeExecuted == Len(trades') = Len(trades) + 1

\* C29: after every executed buy (resp. sell) the cash of the buy strategy
\* (resp. the sell strategy) equals the engine's current_cash, and the buy
\* strategy's positions map has the symbols of the engine's positions map,
\* with one strategy object or with two.
C29_StrategyMirrorsLedger ==
    [][TradeExecuted =>
          LET trade == LastOf(trades')
              object == IF trade.action = "buy" THEN buy_strategy ELSE sell_strategy
          IN  /\ strategies'[object].cash = current_cash'
              /\ buy_strategy # None =>
                    DOMAIN strategies'[buy_strategy].positions = DOMAIN positions']_vars

\* what the code does: the object's cash is set to current_cash and then
\* update_position moves the amount of the trade once more; a sell reaches
\* the positions of the sell strategy only, which ignores it when the
\* object holds less than is sold
C29_StrategyCountsTradeTwice ==
    [][TradeExecuted =>
          LET trade == LastOf(trades')
          IN  IF trade.action = "buy"
              THEN /\ strategies'[buy_strategy].cash = current_cash' - trade.amount
                   /\ trade.symbol \in DOMAIN strategies'[buy_strategy].positions
              ELSE /\ strategies'[sell_strategy].cash =
                        IF trade.quantity <= HeldBy(strategies[sell_strategy], trade.symbol)
                        THEN current_cash' + trade.amount
                        ELSE current_cash'
                   /\ (buy_strategy # None /\ buy_strategy # sell_strategy) =>
                        strategies'[buy_strategy] = strategies[buy_strategy]]_vars

\* one buy of 300 A at 10 from 100,000 without commission: the engine has
\* 97,000, the buy strategy 94,000
C29_Witness ==
    /\ Len(trades) = 1
    /\ trades[1] = Trade("A", 1, "buy", 300, 10, Amount(300, 10), 0)
    /\ current_cash = 97000 * RateDen
    /\ strategies[buy_strategy].cash = 94000 * RateDen

\* two objects, A bought and sold: the engine holds nothing, the buy strategy
\* still has its position in A and the sell strategy an empty one
C29_PositionsApart ==
    /\ buy_strategy = "o1" /\ sell_strategy = "o2"
    /\ Len(trades) = 2
    /\ trades[1].action = "buy" /\ trades[1].symbol = "A"
    /\ trades[2].action = "sell" /\ trades[2].symbol = "A"
    /\ positions = <<>>
    /\ HeldBy(strategies["o1"], "A") = trades[1].quantity
    /\ "A" \in DOMAIN strategies["o2"].positions
    /\ HeldBy(strategies["o2"], "A") = 0

\* the shares of a symbol the trades of a log leave: bought less sold
QuantityAfter(log, symbol) ==
    LET signed == [k \in DOMAIN log |->
                      IF log[k].symbol # symbol THEN 0
                      ELSE IF log[k].action = "buy" THEN log[k].quantity
                      ELSE -log[k].quantity]
    IN  SumOver(DOMAIN log, signed)

\* C30: at every point of a run the trade log gives the ledger back:
\* current_cash is the initial cash less amount + commission of every buy
\* plus amount - commission of every sell, and the engine holds of each
\* symbol the bought less the sold quantities; the log only grows by
\* appending one trade whose date is not before the dates logged; and the
\* summary's total_trades is the length of the log.
C30_LedgerFollowsFromLog ==
    /\ [](/\ current_cash = CashAfter(trades)
          /\ \A s \in Symbols :
                QuantityAfter(trades, s) =
                    IF s \in DOMAIN positions THEN positions[s].quantity ELSE 0
          /\ \A i, j \in DOMAIN trades :
                i < j => trades[i].trade_date <= trades[j].trade_date
          /\ pc = "done" => summary.total_trades = Len(trades))
    /\ [][\/ trades' = trades
          \/ /\ Len(trades') = Len(trades) + 1
             /\ SubSeq(trades', 1, Len(trades)) = trades]_vars

\* a finished run with a commission of 0.1 %: 300 A bought at 10, sold at
\* 11 on the next date, 100 B bought then and still held
C30_Witness ==
    /\ pc = "done"
    /\ commission_rate = 1
    /\ Len(trades) = 3
    /\ trades[1].action = "buy" /\ trades[1].symbol = "A" /\ trades[1].trade_date = 1
    /\ trades[1].quantity = 300
    /\ trades[2].action = "sell" /\ trades[2].symbol = "A" /\ trades[2].trade_date = 2
    /\ trades[2].price = 11
    /\ trades[3].action = "buy" /\ trades[3].symbol = "B" /\ trades[3].quantity = 100
    /\ DOMAIN positions = {"B"}
    /\ summary.total_trades = 3

====
